---- MODULE Spec2Model ----
(***************************************************************************)
(* TimeTabling: the constraint model built by HardConstraints.py, the      *)
(* Solution object filled by SolutionValidator.OnSolutionCallback and the  *)
(* checks of SolutionValidation.py, as one state machine.                  *)
(*                                                                         *)
(* A behaviour picks one entity graph from a catalogue, runs the build     *)
(* steps of TimeTabling.main in their order, lets the solver report one    *)
(* assignment that satisfies every posted constraint, extracts the         *)
(* Solution from it and validates it.                                      *)
(***************************************************************************)
EXTENDS Integers, Sequences, FiniteSets, TLC

(***************************************************************************)
(* Global constants of the ORM module and the Timeslot index.              *)
(***************************************************************************)
TIMESLOTS_PER_DAY == 6

WEEKDAYS == 5

\* Weekdays on which the catalogue's open availability windows lie.
DaysOpen == 2

Timeslots == 1 .. (WEEKDAYS * TIMESLOTS_PER_DAY)

\* Timeslot.number: position of the slot on its day.
number(t) == ((t - 1) % TIMESLOTS_PER_DAY) + 1

\* Timeslot.weekday as its index, 1 for monday.
weekday_number(t) == ((t - 1) \div TIMESLOTS_PER_DAY) + 1

getTimeslotsPerDay == [d \in 1 .. WEEKDAYS |-> {t \in Timeslots : weekday_number(t) = d}]

getForenoonTimeslotNumbers == {1, 2, 3}

getWeekdayID(weekday) ==
    CASE weekday = "MO" -> 1
      [] weekday = "TU" -> 2
      [] weekday = "WE" -> 3
      [] weekday = "TH" -> 4
      [] weekday = "FR" -> 5

Max(S) == CHOOSE x \in S : \A y \in S : y <= x

Min(S) == CHOOSE x \in S : \A y \in S : x <= y

RECURSIVE Sum(_, _)
Sum(f, S) == IF S = {} THEN 0 ELSE LET x == CHOOSE y \in S : TRUE IN f[x] + Sum(f, S \ {x})

(***************************************************************************)
(* Entities.  A lesson, course, teacher, semester group or room is its     *)
(* index in the scenario's list, which is also its id.                     *)
(***************************************************************************)
NewLesson(c, size, whole, ts, avail, same, consec) ==
    [course |-> c, timeslot_size |-> size, whole_semester_group |-> whole, teachers |-> ts,
     available_timeslots |-> avail, lessons_at_same_time |-> same, lessons_consecutive |-> consec]

NewCourse(rooms, sgs, block, lecture) ==
    [possible_rooms |-> rooms, semester_groups |-> sgs, only_forenoon |-> FALSE,
     all_in_one_block |-> block, is_lecture |-> lecture, one_per_day_per_teacher |-> FALSE]

NewTeacher(sd1, sd2, maxLessons) ==
    [study_day_1 |-> sd1, study_day_2 |-> sd2, max_lessons_per_day |-> maxLessons,
     not_available_timeslots |-> {}, avoid_free_day_gaps |-> FALSE]

NewSemesterGroup(maxLessons) == [max_lessons_per_day |-> maxLessons, free_day |-> "None"]

NewRoom(notAvail) == [not_available_timeslots |-> notAvail]

\* The slots of the first DaysOpen weekdays whose number on the day is in hours.
OpenSlots(hours) == {t \in Timeslots : weekday_number(t) <= DaysOpen /\ number(t) \in hours}

AllHours == 1 .. TIMESLOTS_PER_DAY

\* The timeslot of the hour of the weekday.
SlotAt(d, hour) == (d - 1) * TIMESLOTS_PER_DAY + hour

Plain(n) == [i \in 1 .. n |-> NewTeacher("None", "None", 5)]

FreeRooms(n) == [i \in 1 .. n |-> NewRoom({})]

NoSweep == {<<3, 2>>}

LectureSweep == (1 .. TIMESLOTS_PER_DAY) \X (1 .. TIMESLOTS_PER_DAY)

(***************************************************************************)
(* The catalogue of entity graphs.  sweep is the set of                    *)
(* (max_lectures_per_day, max_lectures_as_block) pairs the teachers of the *)
(* graph are loaded with.                                                  *)
(***************************************************************************)
\* Part-cohort lessons of three courses of one cohort, a second part-cohort
\* lesson of the first course and one whole-cohort lesson; the last three
\* lessons can be held on monday and tuesday only.
Parallel ==
    [lessons |-> << NewLesson(1, 1, FALSE, {1}, OpenSlots({1, 2}), {}, {}),
                    NewLesson(2, 1, FALSE, {2}, OpenSlots({1, 2}), {}, {}),
                    NewLesson(3, 1, FALSE, {3}, {SlotAt(1, 1), SlotAt(2, 1)}, {}, {}),
                    NewLesson(1, 1, FALSE, {4}, {SlotAt(1, 1), SlotAt(2, 1)}, {}, {}),
                    NewLesson(4, 1, TRUE, {5},
                              {SlotAt(1, 1), SlotAt(1, 3), SlotAt(2, 1), SlotAt(2, 3)}, {}, {}) >>,
     courses |-> << NewCourse({1, 5}, {1}, FALSE, FALSE), NewCourse({2}, {1}, FALSE, FALSE),
                    NewCourse({3}, {1}, FALSE, FALSE), NewCourse({4}, {1}, FALSE, FALSE) >>,
     teachers |-> Plain(5),
     semester_groups |-> << NewSemesterGroup(5) >>,
     rooms |-> FreeRooms(5),
     sweep |-> NoSweep]

\* Two whole-cohort lessons of sizes 2 and 3 at the same time, both of one
\* teacher, and a third lesson of that teacher outside the group.
SameTime(maxLessons) ==
    [lessons |-> << NewLesson(1, 2, TRUE, {1}, OpenSlots(2 .. TIMESLOTS_PER_DAY), {2}, {}),
                    NewLesson(2, 3, TRUE, {1}, OpenSlots(AllHours), {1}, {}),
                    NewLesson(3, 1, TRUE, {1}, OpenSlots(AllHours), {}, {}) >>,
     courses |-> << NewCourse({1}, {1}, FALSE, FALSE), NewCourse({2}, {1}, FALSE, FALSE),
                    NewCourse({1, 2}, {2}, FALSE, FALSE) >>,
     teachers |-> << NewTeacher("None", "None", maxLessons) >>,
     semester_groups |-> << NewSemesterGroup(5), NewSemesterGroup(5) >>,
     rooms |-> FreeRooms(2),
     sweep |-> NoSweep]

\* Two lessons of size 2 and two of size 1 of unrelated courses competing
\* for two rooms.
Rooms ==
    [lessons |-> << NewLesson(1, 2, TRUE, {1}, OpenSlots({1, 2, 3}), {}, {}),
                    NewLesson(2, 2, TRUE, {2}, OpenSlots({1, 2, 3}), {}, {}),
                    NewLesson(3, 1, TRUE, {3}, OpenSlots({2}), {}, {}),
                    NewLesson(4, 1, TRUE, {4}, OpenSlots({2}), {}, {}) >>,
     courses |-> << NewCourse({1, 2}, {1}, FALSE, FALSE), NewCourse({1, 2}, {2}, FALSE, FALSE),
                    NewCourse({1, 2}, {3}, FALSE, FALSE), NewCourse({1}, {4}, FALSE, FALSE) >>,
     teachers |-> Plain(4),
     semester_groups |-> [i \in 1 .. 4 |-> NewSemesterGroup(5)],
     rooms |-> FreeRooms(2),
     sweep |-> NoSweep]

\* An all_in_one_block course with lessons of sizes 2 and 1.
Block ==
    [lessons |-> << NewLesson(1, 2, TRUE, {1}, OpenSlots(AllHours), {}, {}),
                    NewLesson(1, 1, TRUE, {2}, OpenSlots(AllHours), {}, {}) >>,
     courses |-> << NewCourse({1, 2}, {1}, TRUE, FALSE) >>,
     teachers |-> Plain(2),
     semester_groups |-> << NewSemesterGroup(5) >>,
     rooms |-> FreeRooms(2),
     sweep |-> NoSweep]

\* An all_in_one_block course two of whose three lessons are at the same time.
BlockSameTime ==
    [lessons |-> << NewLesson(1, 1, FALSE, {1}, OpenSlots(AllHours), {2}, {}),
                    NewLesson(1, 1, FALSE, {2}, OpenSlots(AllHours), {1}, {}),
                    NewLesson(1, 1, FALSE, {3}, OpenSlots(AllHours), {}, {}) >>,
     courses |-> << NewCourse({1}, {1}, TRUE, FALSE) >>,
     teachers |-> Plain(3),
     semester_groups |-> << NewSemesterGroup(5) >>,
     rooms |-> FreeRooms(1),
     sweep |-> NoSweep]

\* A lesson of size 2 that a lesson of size 1 has to follow directly.
Consecutive ==
    [lessons |-> << NewLesson(1, 2, TRUE, {1}, OpenSlots(AllHours), {}, {2}),
                    NewLesson(2, 1, TRUE, {2}, OpenSlots(AllHours), {}, {}) >>,
     courses |-> << NewCourse({1}, {1}, FALSE, FALSE), NewCourse({2}, {1}, FALSE, FALSE) >>,
     teachers |-> Plain(2),
     semester_groups |-> << NewSemesterGroup(5) >>,
     rooms |-> FreeRooms(2),
     sweep |-> NoSweep]

\* A teacher with the study days sd1 and sd2 and two lessons.
StudyDay(sd1, sd2) ==
    [lessons |-> << NewLesson(1, 1, TRUE, {1}, OpenSlots({1, 2, 3}), {}, {}),
                    NewLesson(2, 1, TRUE, {1}, OpenSlots({1, 2, 3}), {}, {}) >>,
     courses |-> << NewCourse({1}, {1}, FALSE, FALSE), NewCourse({1}, {1}, FALSE, FALSE) >>,
     teachers |-> << NewTeacher(sd1, sd2, 5) >>,
     semester_groups |-> << NewSemesterGroup(5) >>,
     rooms |-> FreeRooms(1),
     sweep |-> NoSweep]

\* Where the i-th lecture of the Lectures graph may lie besides hour i of monday.
Parking == << 7, 13, 19, 25, 9, 15 >>

\* One teacher with six lectures of size 1; lecture i is held either at hour i
\* of monday or at its parking slot.
Lectures ==
    [lessons |-> [i \in 1 .. TIMESLOTS_PER_DAY |-> NewLesson(i, 1, TRUE, {1}, {i, Parking[i]}, {}, {})],
     courses |-> [i \in 1 .. TIMESLOTS_PER_DAY |-> NewCourse({i}, {1}, FALSE, TRUE)],
     teachers |-> << NewTeacher("None", "None", TIMESLOTS_PER_DAY) >>,
     semester_groups |-> << NewSemesterGroup(TIMESLOTS_PER_DAY) >>,
     rooms |-> FreeRooms(TIMESLOTS_PER_DAY),
     sweep |-> LectureSweep]

\* One teacher with a lecture of size 2 and a lecture of size 1 at the same
\* time and a third lecture of size 1.
LecturesSameTime ==
    [lessons |-> << NewLesson(1, 2, TRUE, {1}, OpenSlots({1, 2, 3}), {2}, {}),
                    NewLesson(2, 1, TRUE, {1}, OpenSlots({1, 2, 3}), {1}, {}),
                    NewLesson(3, 1, TRUE, {1}, OpenSlots({1, 2, 3, 4}), {}, {}) >>,
     courses |-> << NewCourse({1}, {1}, FALSE, TRUE), NewCourse({2}, {1}, FALSE, TRUE),
                    NewCourse({1}, {1}, FALSE, TRUE) >>,
     teachers |-> << NewTeacher("None", "None", 5) >>,
     semester_groups |-> << NewSemesterGroup(5) >>,
     rooms |-> FreeRooms(2),
     sweep |-> LectureSweep]

\* One teacher with two lectures of size 1.
LecturesTwo ==
    [lessons |-> << NewLesson(1, 1, TRUE, {1}, OpenSlots({1, 2}), {}, {}),
                    NewLesson(2, 1, TRUE, {1}, OpenSlots({1, 2}), {}, {}) >>,
     courses |-> << NewCourse({1}, {1}, FALSE, TRUE), NewCourse({1}, {1}, FALSE, TRUE) >>,
     teachers |-> << NewTeacher("None", "None", 5) >>,
     semester_groups |-> << NewSemesterGroup(5) >>,
     rooms |-> FreeRooms(1),
     sweep |-> LectureSweep]

\* One cohort with a whole-cohort lesson and a part-cohort lesson of another
\* course at the same time and a whole-cohort lesson outside the group.
CohortDay(wholeSize, maxLessons) ==
    [lessons |-> << NewLesson(1, wholeSize, TRUE, {1}, OpenSlots({1, 2}), {2}, {}),
                    NewLesson(2, 1, FALSE, {2}, OpenSlots({1, 2}), {1}, {}),
                    NewLesson(3, 1, TRUE, {3}, OpenSlots({4}), {}, {}) >>,
     courses |-> << NewCourse({1}, {1}, FALSE, FALSE), NewCourse({2}, {1}, FALSE, FALSE),
                    NewCourse({3}, {1}, FALSE, FALSE) >>,
     teachers |-> Plain(3),
     semester_groups |-> << NewSemesterGroup(maxLessons) >>,
     rooms |-> FreeRooms(3),
     sweep |-> NoSweep]

\* One course that is not all_in_one_block with two whole-cohort lessons and
\* a part-cohort lesson, none of them in a same-time group.
CourseDays ==
    [lessons |-> << NewLesson(1, 1, TRUE, {1}, OpenSlots({1}), {}, {}),
                    NewLesson(1, 1, TRUE, {2}, OpenSlots({2}), {}, {}),
                    NewLesson(1, 1, FALSE, {3}, OpenSlots({3}), {}, {}) >>,
     courses |-> << NewCourse({1}, {1}, FALSE, FALSE) >>,
     teachers |-> Plain(3),
     semester_groups |-> << NewSemesterGroup(5) >>,
     rooms |-> FreeRooms(1),
     sweep |-> NoSweep]

\* One teacher gives the two lessons of an all_in_one_block course and two
\* lessons of a second course, both courses one_per_day_per_teacher; a second
\* teacher gives a third lesson of the second course.
OnePerDay ==
    [lessons |-> << NewLesson(1, 1, TRUE, {1}, OpenSlots({1, 2}), {}, {}),
                    NewLesson(1, 1, TRUE, {1}, OpenSlots({1, 2}), {}, {}),
                    NewLesson(2, 1, TRUE, {1}, OpenSlots({3}), {}, {}),
                    NewLesson(2, 1, FALSE, {1}, OpenSlots({4}), {}, {}),
                    NewLesson(2, 1, FALSE, {2}, OpenSlots({5}), {}, {}) >>,
     courses |-> << [NewCourse({1}, {1}, TRUE, FALSE) EXCEPT !.one_per_day_per_teacher = TRUE],
                    [NewCourse({2}, {1}, FALSE, FALSE) EXCEPT !.one_per_day_per_teacher = TRUE] >>,
     teachers |-> Plain(2),
     semester_groups |-> << NewSemesterGroup(5) >>,
     rooms |-> FreeRooms(2),
     sweep |-> NoSweep]

\* A lesson of size 2 of a teacher who is not available at hour 3 of monday,
\* at the same time as a lesson of size 1 that is given hours 2 and 3 only;
\* room 1, one of the two rooms of the longer lesson, is not available at
\* hour 4 of tuesday.  A third lesson belongs to a forenoon course.
Admissible ==
    [lessons |-> << NewLesson(1, 2, TRUE, {1}, OpenSlots({1, 2, 3, 4}), {2}, {}),
                    NewLesson(2, 1, FALSE, {2}, OpenSlots({2, 3}), {1}, {}),
                    NewLesson(3, 1, TRUE, {2}, {}, {}, {}) >>,
     courses |-> << NewCourse({1, 3}, {1}, FALSE, FALSE), NewCourse({4}, {1}, FALSE, FALSE),
                    [NewCourse({2}, {2}, FALSE, FALSE) EXCEPT !.only_forenoon = TRUE] >>,
     teachers |-> << [NewTeacher("None", "None", 5) EXCEPT !.not_available_timeslots = {3}],
                     NewTeacher("None", "None", 5) >>,
     semester_groups |-> << NewSemesterGroup(5), NewSemesterGroup(5) >>,
     rooms |-> << NewRoom({TIMESLOTS_PER_DAY + 4}), NewRoom({}), NewRoom({}), NewRoom({}) >>,
     sweep |-> NoSweep]

\* Two whole-cohort lessons of one cohort that can only lie at hour 1 of
\* monday: no timetable exists.
Overbooked ==
    [lessons |-> << NewLesson(1, 1, TRUE, {1}, OpenSlots({1}) \cap getTimeslotsPerDay[1], {}, {}),
                    NewLesson(2, 1, TRUE, {2}, OpenSlots({1}) \cap getTimeslotsPerDay[1], {}, {}) >>,
     courses |-> << NewCourse({1}, {1}, FALSE, FALSE), NewCourse({1}, {1}, FALSE, FALSE) >>,
     teachers |-> Plain(2),
     semester_groups |-> << NewSemesterGroup(5) >>,
     rooms |-> FreeRooms(1),
     sweep |-> NoSweep]

\* A lesson whose teacher is not available at the only timeslot the lesson is
\* given: its timeVar has an empty domain.
NoTimeslot ==
    [lessons |-> << NewLesson(1, 1, TRUE, {1}, OpenSlots({1}) \cap getTimeslotsPerDay[1], {}, {}) >>,
     courses |-> << NewCourse({1}, {1}, FALSE, FALSE) >>,
     teachers |-> << [NewTeacher("None", "None", 5) EXCEPT
                        !.not_available_timeslots = OpenSlots({1}) \cap getTimeslotsPerDay[1]] >>,
     semester_groups |-> << NewSemesterGroup(5) >>,
     rooms |-> FreeRooms(1),
     sweep |-> NoSweep]

\* A cohort that wishes the monday free with three whole-cohort lessons: two
\* of a teacher who avoids free days between working days, one of size 1 at
\* hour 1 or 6 of monday and one of size 2 on monday, wednesday, thursday or
\* friday, and one of a teacher with the study days monday and wednesday at
\* hours 4 to 6 of monday or hour 1 of tuesday.
Wishes ==
    [lessons |-> << NewLesson(1, 1, TRUE, {1}, {SlotAt(1, 1), SlotAt(1, 6)}, {}, {}),
                    NewLesson(2, 2, TRUE, {1},
                              {SlotAt(1, 3), SlotAt(1, 4), SlotAt(3, 5), SlotAt(3, 6),
                               SlotAt(4, 1), SlotAt(4, 2), SlotAt(5, 1), SlotAt(5, 2)}, {}, {}),
                    NewLesson(3, 1, TRUE, {2},
                              {SlotAt(1, 4), SlotAt(1, 5), SlotAt(1, 6), SlotAt(2, 1)}, {}, {}) >>,
     courses |-> << NewCourse({1}, {1}, FALSE, FALSE), NewCourse({2}, {1}, FALSE, FALSE),
                    NewCourse({3}, {1}, FALSE, FALSE) >>,
     teachers |-> << [NewTeacher("None", "None", 5) EXCEPT !.avoid_free_day_gaps = TRUE],
                     NewTeacher("MO", "WE", 5) >>,
     semester_groups |-> << [NewSemesterGroup(5) EXCEPT !.free_day = "MO"] >>,
     rooms |-> FreeRooms(3),
     sweep |-> NoSweep]

\* Part-cohort lessons of three courses of one cohort on monday: a lesson of
\* size 2 of the first course, a lecture, two lessons of size 1 of the second
\* course and one of the third.
ParallelBlocks ==
    [lessons |-> << NewLesson(1, 2, FALSE, {1},
                              {SlotAt(1, 1), SlotAt(1, 2), SlotAt(1, 3), SlotAt(1, 4)}, {}, {}),
                    NewLesson(2, 1, FALSE, {2}, {SlotAt(1, 2), SlotAt(1, 5)}, {}, {}),
                    NewLesson(3, 1, FALSE, {3}, {SlotAt(1, 5), SlotAt(1, 6)}, {}, {}),
                    NewLesson(2, 1, FALSE, {4}, {SlotAt(1, 5), SlotAt(1, 6)}, {}, {}) >>,
     courses |-> << NewCourse({1}, {1}, FALSE, TRUE), NewCourse({2, 4}, {1}, FALSE, FALSE),
                    NewCourse({3}, {1}, FALSE, FALSE) >>,
     teachers |-> Plain(4),
     semester_groups |-> << NewSemesterGroup(5) >>,
     rooms |-> FreeRooms(4),
     sweep |-> NoSweep]

\* One cohort that wishes monday free and may have one lesson per day, with
\* two part-cohort lessons of one course that can only be held on monday.
FreeDayParallel ==
    [lessons |-> << NewLesson(1, 1, FALSE, {1}, {SlotAt(1, 1), SlotAt(1, 2)}, {}, {}),
                    NewLesson(1, 1, FALSE, {2}, {SlotAt(1, 1), SlotAt(1, 2)}, {}, {}) >>,
     courses |-> << NewCourse({1, 2}, {1}, FALSE, FALSE) >>,
     teachers |-> Plain(2),
     semester_groups |-> << [NewSemesterGroup(1) EXCEPT !.free_day = "MO"] >>,
     rooms |-> FreeRooms(2),
     sweep |-> NoSweep]

Catalogue ==
    << Parallel, SameTime(4), Rooms, Block, BlockSameTime, Consecutive,
       StudyDay("MO", "TU"), StudyDay("MO", "MO"), Lectures, LecturesSameTime, LecturesTwo,
       SameTime(3), CohortDay(2, 3), CohortDay(1, 2),
       CourseDays, OnePerDay, Admissible, Overbooked, NoTimeslot, Wishes, ParallelBlocks,
       FreeDayParallel >>

Lessons(sc) == 1 .. Len(sc.lessons)

Courses(sc) == 1 .. Len(sc.courses)

Teachers(sc) == 1 .. Len(sc.teachers)

SemesterGroups(sc) == 1 .. Len(sc.semester_groups)

\* Course.lessons, Teacher.lessons and SemesterGroup.getLessons.
courseLessons(sc, c) == {l \in Lessons(sc) : sc.lessons[l].course = c}

teacherLessons(sc, t) == {l \in Lessons(sc) : t \in sc.lessons[l].teachers}

getLessons(sc, sg) == {l \in Lessons(sc) : sg \in sc.courses[sc.lessons[l].course].semester_groups}

timeslot_size(sc, l) == sc.lessons[l].timeslot_size

hasStudyday(tr) == tr.study_day_1 # "None" /\ tr.study_day_2 # "None"

(***************************************************************************)
(* Variable factory: createLessonTimeAndRoomVariables.  The values a       *)
(* solution gives to the decision variables are                            *)
(*   timeVars[l] : the sequence of slot ids of lesson l,                   *)
(*   roomVar[l]  : the room id of lesson l,                                *)
(*   studyDayBoolVars[t] : the study day booleans created for teacher t.   *)
(***************************************************************************)
\* Lesson.getAvailableTimeslots, stored by the ORM as availableTimeslotsFiltered.
availableTimeslotsFiltered(sc, l) ==
    LET lesson == sc.lessons[l]
        notAvailableTimeslotsTeachers ==
            UNION {sc.teachers[t].not_available_timeslots : t \in lesson.teachers}
        notAvailableTimeslotsForenoon ==
            IF sc.courses[lesson.course].only_forenoon
            THEN {t \in Timeslots : number(t) \notin getForenoonTimeslotNumbers}
            ELSE {}
        timeslots == Timeslots \ (notAvailableTimeslotsTeachers \cup notAvailableTimeslotsForenoon)
    IN  IF lesson.available_timeslots # {}
        THEN timeslots \cap lesson.available_timeslots
        ELSE timeslots

lessonsSameTime(sc, l) == {l} \cup sc.lessons[l].lessons_at_same_time

maxLessonSize(sc, l) == Max({timeslot_size(sc, m) : m \in lessonsSameTime(sc, l)})

\* The cap without the size of the longest lesson of the group.
lastPossibleTimeslotNumberUncapped(maxSize, i) == TIMESLOTS_PER_DAY

lastPossibleTimeslotNumber(maxSize, i) == TIMESLOTS_PER_DAY - maxSize + i + 1

\* The domain taken from the lesson the factory visits, not from the
\* intersection over the group.
timeDomainOfVisited(sc, l, i) ==
    {t \in availableTimeslotsFiltered(sc, l) :
        number(t) <= lastPossibleTimeslotNumber(maxLessonSize(sc, l), i)}

\* The domain of the i-th timeVar (i counted from 0) of the group of lesson l.
timeDomain(sc, l, i) ==
    LET lessonsWithCurrentSize == {m \in lessonsSameTime(sc, l) : timeslot_size(sc, m) > i}
        availableTimeslots ==
            {t \in Timeslots : \A m \in lessonsWithCurrentSize : t \in availableTimeslotsFiltered(sc, m)}
    IN  {t \in availableTimeslots : number(t) <= lastPossibleTimeslotNumber(maxLessonSize(sc, l), i)}

\* model.Add(timeVar == lastTimeVar + 1)
nextTimeVar(lastTimeVar) == lastTimeVar + 1

RECURSIVE timeVarChain(_, _)
timeVarChain(t0, k) ==
    IF k = 1 THEN << t0 >>
    ELSE LET chain == timeVarChain(t0, k - 1) IN Append(chain, nextTimeVar(chain[k - 1]))

\* The values the timeVars created for the group of lesson l can take together.
groupTimeVars(sc, l) ==
    LET k == maxLessonSize(sc, l)
    IN  {chain \in {timeVarChain(t0, k) : t0 \in timeDomain(sc, l, 0)} :
            \A i \in 1 .. k : chain[i] \in timeDomain(sc, l, i - 1)}

\* The lesson of a same-time group that the factory visits first.
firstOfGroup(sc, l) == Min(lessonsSameTime(sc, l))

\* Every lesson gets timeVars of its own, also inside a same-time group.
RECURSIVE TimeVarValuesOwn(_, _)
TimeVarValuesOwn(sc, n) ==
    IF n = 0 THEN {<< >>}
    ELSE {Append(gv, chain) : gv \in TimeVarValuesOwn(sc, n - 1), chain \in groupTimeVars(sc, n)}

\* Value combinations of the timeVars of the lessons 1 .. n, a lesson of a
\* group sharing the variables created for the first lesson of the group.
RECURSIVE TimeVarValues(_, _)
TimeVarValues(sc, n) ==
    IF n = 0 THEN {<< >>}
    ELSE IF firstOfGroup(sc, n) < n
         THEN {Append(gv, gv[firstOfGroup(sc, n)]) : gv \in TimeVarValues(sc, n - 1)}
         ELSE {Append(gv, chain) : gv \in TimeVarValues(sc, n - 1), chain \in groupTimeVars(sc, n)}

\* lessonSameTime.timeVars.append(timeVar) only for the lessons whose size is > i.
lessonTimeVars(sc, gv) == [l \in Lessons(sc) |-> SubSeq(gv[l], 1, timeslot_size(sc, l))]

\* Identity of the i-th timeVar object of lesson l.
timeVarId(sc, l, i) == << firstOfGroup(sc, l), i >>

RECURSIVE RoomVarValues(_, _)
RoomVarValues(sc, n) ==
    IF n = 0 THEN {<< >>}
    ELSE {Append(rv, r) : rv \in RoomVarValues(sc, n - 1),
                          r \in sc.courses[sc.lessons[n].course].possible_rooms}

\* The study day booleans addTeacherStudyDayConstraints creates for a teacher.
studyDayBoolCount(sc, t) ==
    IF hasStudyday(sc.teachers[t]) /\ teacherLessons(sc, t) # {}
    THEN Cardinality({getWeekdayID(sc.teachers[t].study_day_1), getWeekdayID(sc.teachers[t].study_day_2)})
    ELSE 0

RECURSIVE StudyDayValues(_, _)
StudyDayValues(sc, n) ==
    IF n = 0 THEN {<< >>}
    ELSE {Append(sd, bools) : sd \in StudyDayValues(sc, n - 1),
                              bools \in [1 .. studyDayBoolCount(sc, n) -> BOOLEAN]}

(***************************************************************************)
(* Helper variables: their values follow from the timeVars.                *)
(***************************************************************************)
\* timeVars[0] == (weekdayVar - 1) * TIMESLOTS_PER_DAY + hourNumberVar
weekdayVar(tv, l) == weekday_number(tv[l][1])

hourNumberVar(tv, l) == number(tv[l][1])

weekdayBoolVars(tv, l, d) == IF tv[l][1] \in getTimeslotsPerDay[d] THEN 1 ELSE 0

timeslotBoolVars(tv, l, t) == IF \E i \in 1 .. Len(tv[l]) : tv[l][i] = t THEN 1 ELSE 0

\* A list of booleans over the timeslots is held as the set of the timeslots
\* whose boolean is 1.  The list of one timeVar of a lesson: a BoolVar for
\* every admissible timeslot and the falseVar for the others, with
\* sum(timeslotBoolVars) == 1.
oneTimeslotBoolVars(sc, l) ==
    {{s} : s \in availableTimeslotsFiltered(sc, l)}

\* The lists without the constraint that ties them to the timeVar.
timeslotBoolVarsAllUntied(sc, tv, l, k) == oneTimeslotBoolVars(sc, l)

\* The values the list of the k-th timeVar can take:
\* timeVar == sum(t.id * timeslotBoolVars[t.id - 1]).
timeslotBoolVarsAll(sc, tv, l, k) ==
    {ones \in oneTimeslotBoolVars(sc, l) : tv[l][k] = Sum([t \in ones |-> t * 1], ones)}

\* The values lesson.timeslotBoolVars can take in a solution with the given
\* timeVars: the list of the only timeVar, or a list of BoolVars and falseVars
\* whose BoolVars equal the sum of the lists of the timeVars.
TimeslotBoolVarValues(sc, tv, l) ==
    LET n == Len(tv[l])
        lists == UNION {timeslotBoolVarsAll(sc, tv, l, k) : k \in 1 .. n}
        all == {a \in [1 .. n -> lists] : \A k \in 1 .. n : a[k] \in timeslotBoolVarsAll(sc, tv, l, k)}
        sumAt(a, t) == Cardinality({k \in 1 .. n : t \in a[k]})
    IN  IF n = 1 THEN timeslotBoolVarsAll(sc, tv, l, 1)
        ELSE {{t \in availableTimeslotsFiltered(sc, l) : sumAt(a, t) = 1} :
                a \in {x \in all : \A t \in availableTimeslotsFiltered(sc, l) : sumAt(x, t) \in {0, 1}}}

\* The values tOccupied can take for the teacher and the timeslot, given the
\* timeslotBoolVars of the teacher's lectures: AddBoolOr(list) if tOccupied,
\* sum(list) == 0 if not.
TimeslotLectureBoolValues(sc, teacher, t, bools) ==
    LET lectures ==
            {l \in teacherLessons(sc, teacher) : sc.courses[sc.lessons[l].course].is_lecture}
    IN  {tOccupied \in {0, 1} :
            /\ tOccupied = 1 => \E l \in lectures : t \in bools[l]
            /\ tOccupied = 0 => Cardinality({l \in lectures : t \in bools[l]}) = 0}

\* tOccupied of createTeacherLectureAtTimeslotMap.
timeslotLectureBoolMap(sc, tv, teacher, t) ==
    IF \E l \in teacherLessons(sc, teacher) :
          sc.courses[sc.lessons[l].course].is_lecture /\ timeslotBoolVars(tv, l, t) = 1
    THEN 1 ELSE 0

(***************************************************************************)
(* Time conflict constraints.                                              *)
(***************************************************************************)
\* AddAllDifferent(set(flatMap(lambda l: l.timeVars, lessons))): the set holds
\* a shared timeVar once.
AddAllDifferent(sc, tv, lessons) ==
    \A l1 \in lessons, l2 \in lessons :
        \A i \in 1 .. Len(tv[l1]), j \in 1 .. Len(tv[l2]) :
            timeVarId(sc, l1, i) # timeVarId(sc, l2, j) => tv[l1][i] # tv[l2][j]

\* All different over the first timeVar of every lesson only.
addTeacherTimeConstraintsStartsOnly(sc, tv) ==
    \A teacher \in Teachers(sc) :
        \A l1 \in teacherLessons(sc, teacher), l2 \in teacherLessons(sc, teacher) :
            timeVarId(sc, l1, 1) # timeVarId(sc, l2, 1) => tv[l1][1] # tv[l2][1]

addTeacherTimeConstraints(sc, tv) ==
    \A teacher \in Teachers(sc) : AddAllDifferent(sc, tv, teacherLessons(sc, teacher))

\* Only the all different constraint over the whole-cohort lessons.
addSemesterGroupTimeConstraintsWholeOnly(sc, tv) ==
    \A semesterGroup \in SemesterGroups(sc) :
        AddAllDifferent(sc, tv, {l \in getLessons(sc, semesterGroup) : sc.lessons[l].whole_semester_group})

\* The third constraint of a timeslot without the lessons of size 2 and more.
noMultiBlockLessonsDropped(partAtTimeslot, multiBlockLessons) == TRUE

\* sum of the timeslotBoolVars of the multiBlockLessons == 0.
noMultiBlockLessons(partAtTimeslot, multiBlockLessons) == Sum(partAtTimeslot, multiBlockLessons) = 0

\* The second constraint of a timeslot without the count of the lessons.
onePerCourseDropped(partAtTimeslot, lessonsWithPartSG, courseTakePlace, parallelCourses) == TRUE

\* sum of the timeslotBoolVars of lessonsWithPartSG == sum(courseTakePlace).
onePerCourse(partAtTimeslot, lessonsWithPartSG, courseTakePlace, parallelCourses) ==
    Sum(partAtTimeslot, lessonsWithPartSG) = Sum(courseTakePlace, parallelCourses)

addSemesterGroupTimeConstraints(sc, tv) ==
    \A semesterGroup \in SemesterGroups(sc) :
        LET lessonsWithWholeSG ==
                {l \in getLessons(sc, semesterGroup) : sc.lessons[l].whole_semester_group}
            lessonsWithPartSG ==
                {l \in getLessons(sc, semesterGroup) : ~sc.lessons[l].whole_semester_group}
            multiBlockLessons == {l \in lessonsWithPartSG : timeslot_size(sc, l) > 1}
            parallelCourses == {sc.lessons[l].course : l \in lessonsWithPartSG}
        IN  /\ AddAllDifferent(sc, tv, lessonsWithWholeSG)
            /\ \A lesson \in lessonsWithPartSG :
                    AddAllDifferent(sc, tv, lessonsWithWholeSG \cup {lesson})
            /\ \A t \in Timeslots :
                    LET courseTakePlace ==
                            [c \in parallelCourses |->
                                Max({timeslotBoolVars(tv, l, t) :
                                        l \in {m \in courseLessons(sc, c) :
                                                  ~sc.lessons[m].whole_semester_group}})]
                        partAtTimeslot == [l \in lessonsWithPartSG |-> timeslotBoolVars(tv, l, t)]
                    IN  \E boolV \in BOOLEAN :
                            /\ boolV => Sum(courseTakePlace, parallelCourses) <= 1
                            /\ ~boolV =>
                                /\ onePerCourse(partAtTimeslot, lessonsWithPartSG,
                                                courseTakePlace, parallelCourses)
                                /\ noMultiBlockLessons(partAtTimeslot, multiBlockLessons)

\* createLessonIntervalVar: start = timeVars[0] - 1, end = the last timeVar.
createLessonIntervalVar(sc, tv, l) ==
    [start |-> tv[l][1] - 1, size |-> timeslot_size(sc, l), end |-> tv[l][timeslot_size(sc, l)]]

\* An interval variable holds start + size = end.
IntervalVar(iv) == iv.start + iv.size = iv.end

AddNoOverlap(iv1, iv2) == iv1.end <= iv2.start \/ iv2.end <= iv1.start

\* Only the first timeslots of the two lessons are kept apart.
roomTimeDisjointStartsOnly(sc, tv, i, j) == tv[i][1] # tv[j][1]

\* What the constraint of a lesson pair requires when sameRoom is true.
roomTimeDisjoint(sc, tv, i, j) ==
    IF timeslot_size(sc, i) > 1 /\ timeslot_size(sc, j) > 1
    THEN AddNoOverlap(createLessonIntervalVar(sc, tv, i), createLessonIntervalVar(sc, tv, j))
    ELSE \A k \in 1 .. timeslot_size(sc, i), l \in 1 .. timeslot_size(sc, j) : tv[i][k] # tv[j][l]

\* The pairs of multi-slot lessons for which line 570 posts AddNoOverlap.
noOverlapPairs(sc) ==
    {p \in Lessons(sc) \X Lessons(sc) :
        /\ p[1] < p[2]
        /\ sc.courses[sc.lessons[p[1]].course].possible_rooms
                \cap sc.courses[sc.lessons[p[2]].course].possible_rooms # {}
        /\ p[2] \notin sc.lessons[p[1]].lessons_at_same_time
        /\ timeslot_size(sc, p[1]) > 1
        /\ timeslot_size(sc, p[2]) > 1}

\* AddNoOverlap(...).OnlyEnforceIf(sameRoom): whether the solver gates a
\* no-overlap constraint by the literal or posts it unconditionally is the
\* solver library's choice; both are outcomes of the build.
onlyEnforceIfChoices(sc) == IF noOverlapPairs(sc) = {} THEN {TRUE} ELSE BOOLEAN

\* onlyEnforceIf: the literal of line 570 gates the no-overlap constraint.
addRoomTimeConstraints(sc, tv, rv, onlyEnforceIf) ==
    \A i \in Lessons(sc), j \in Lessons(sc) :
        LET room_intersection ==
                sc.courses[sc.lessons[i].course].possible_rooms
                    \cap sc.courses[sc.lessons[j].course].possible_rooms
        IN  (i < j /\ room_intersection # {} /\ j \notin sc.lessons[i].lessons_at_same_time) =>
                /\ (timeslot_size(sc, i) > 1 /\ timeslot_size(sc, j) > 1) =>
                        /\ IntervalVar(createLessonIntervalVar(sc, tv, i))
                        /\ IntervalVar(createLessonIntervalVar(sc, tv, j))
                /\ \E sameRoom \in BOOLEAN :
                        /\ sameRoom => rv[i] = rv[j]
                        /\ ~sameRoom => rv[i] # rv[j]
                        /\ (sameRoom \/ (~onlyEnforceIf /\ << i, j >> \in noOverlapPairs(sc)))
                                => roomTimeDisjoint(sc, tv, i, j)

(***************************************************************************)
(* Max per day constraints.                                                *)
(***************************************************************************)
\* orm.getLessonsAtSameTimeSets(): one set per group of lessons at the same time.
getLessonsAtSameTimeSets(sc) ==
    {lessonsSameTime(sc, l) : l \in {m \in Lessons(sc) : sc.lessons[m].lessons_at_same_time # {}}}

\* The shortest lesson instead of the longest.
minByTimeslotSize(sc, lessons) ==
    CHOOSE l \in lessons : \A m \in lessons : timeslot_size(sc, l) <= timeslot_size(sc, m)

\* max(lessons, key=lambda l: l.timeslot_size)
maxByTimeslotSize(sc, lessons) ==
    CHOOSE l \in lessons : \A m \in lessons : timeslot_size(sc, m) <= timeslot_size(sc, l)

lessonsForTeacher(sc, teacher) ==
    {l \in teacherLessons(sc, teacher) : sc.lessons[l].lessons_at_same_time = {}}
        \cup {maxByTimeslotSize(sc, sameTimeSet \cap teacherLessons(sc, teacher)) :
                sameTimeSet \in {s \in getLessonsAtSameTimeSets(sc) :
                                    s \cap teacherLessons(sc, teacher) # {}}}

\* sum(l.timeslot_size * l.weekdayBoolVars[day]) over a set of lessons.
sizeOnDay(sc, tv, lessons, d) ==
    Sum([l \in lessons |-> timeslot_size(sc, l) * weekdayBoolVars(tv, l, d)], lessons)

addMaxLessonsPerDayTeacherConstraints(sc, tv) ==
    \A teacher \in Teachers(sc), d \in 1 .. WEEKDAYS :
        sizeOnDay(sc, tv, lessonsForTeacher(sc, teacher), d) <= sc.teachers[teacher].max_lessons_per_day

\* The two keys in the other order: a part-cohort lesson before a longer one.
longestLessonPartFirst(sc, lessons) ==
    LET key(l) == timeslot_size(sc, l) + (IF sc.lessons[l].whole_semester_group THEN 0 ELSE TIMESLOTS_PER_DAY + 1)
    IN  CHOOSE l \in lessons : \A m \in lessons : key(m) <= key(l)

\* max(lessons, key=lambda l: (l.timeslot_size, not l.whole_semester_group))
longestLesson(sc, lessons) ==
    LET key(l) == 2 * timeslot_size(sc, l) + (IF sc.lessons[l].whole_semester_group THEN 0 ELSE 1)
    IN  CHOOSE l \in lessons : \A m \in lessons : key(m) <= key(l)

lessonsWithWholeSG(sc, semesterGroup) ==
    {l \in getLessons(sc, semesterGroup) :
        sc.lessons[l].whole_semester_group /\ sc.lessons[l].lessons_at_same_time = {}}
        \cup {l \in {longestLesson(sc, sameTimeSet \cap getLessons(sc, semesterGroup)) :
                        sameTimeSet \in {s \in getLessonsAtSameTimeSets(sc) :
                                            s \cap getLessons(sc, semesterGroup) # {}}} :
                sc.lessons[l].whole_semester_group}

\* The courses of a semester group that have part-cohort lessons.
partSGCourses(sc, semesterGroup) ==
    {c \in Courses(sc) :
        /\ semesterGroup \in sc.courses[c].semester_groups
        /\ \E l \in courseLessons(sc, c) : ~sc.lessons[l].whole_semester_group}

partSemesterGroupLessons(sc, c) == {l \in courseLessons(sc, c) : ~sc.lessons[l].whole_semester_group}

addMaxLessonsPerDaySemesterGroupConstraints(sc, tv) ==
    \A semesterGroup \in SemesterGroups(sc), d \in 1 .. WEEKDAYS :
        LET courseTakePlaceVar ==
                [c \in partSGCourses(sc, semesterGroup) |->
                    Max({weekdayBoolVars(tv, l, d) : l \in partSemesterGroupLessons(sc, c)})
                        * timeslot_size(sc, Min(partSemesterGroupLessons(sc, c)))]
        IN  sizeOnDay(sc, tv, lessonsWithWholeSG(sc, semesterGroup), d)
                + Sum(courseTakePlaceVar, partSGCourses(sc, semesterGroup))
                    <= sc.semester_groups[semesterGroup].max_lessons_per_day

\* The course filter inverted: only the all_in_one_block courses.
addMaxLessonsPerDayCourseConstraintsBlockOnly(sc, tv) ==
    \A c \in {k \in Courses(sc) : sc.courses[k].all_in_one_block}, d \in 1 .. WEEKDAYS :
        LET relevantLessons ==
                {l \in courseLessons(sc, c) :
                    sc.lessons[l].whole_semester_group /\ sc.lessons[l].lessons_at_same_time = {}}
        IN  Sum([l \in relevantLessons |-> weekdayBoolVars(tv, l, d)], relevantLessons) <= 1

addMaxLessonsPerDayCourseConstraints(sc, tv) ==
    \A c \in {k \in Courses(sc) : ~sc.courses[k].all_in_one_block}, d \in 1 .. WEEKDAYS :
        LET relevantLessons ==
                {l \in courseLessons(sc, c) :
                    sc.lessons[l].whole_semester_group /\ sc.lessons[l].lessons_at_same_time = {}}
        IN  Sum([l \in relevantLessons |-> weekdayBoolVars(tv, l, d)], relevantLessons) <= 1

(***************************************************************************)
(* Lecture specific constraints.                                           *)
(***************************************************************************)
max5_maxblock_4 == {<<1, 1, 1, 1, 1, 0>>, <<0, 1, 1, 1, 1, 1>>}

\* The blocks of size 4 without the one that ends the day.
max4_maxblock_3_early == {<<1, 1, 1, 1, 0, 0>>, <<0, 1, 1, 1, 1, 0>>}

max4_maxblock_3 == {<<1, 1, 1, 1, 0, 0>>, <<0, 1, 1, 1, 1, 0>>, <<0, 0, 1, 1, 1, 1>>}

max5_maxblock_3 ==
    {<<1, 1, 1, 1, 0, 1>>, <<1, 0, 1, 1, 1, 1>>} \cup max4_maxblock_3 \cup max5_maxblock_4

max3_maxblock_2 ==
    {<<1, 1, 1, 0, 0, 0>>, <<0, 1, 1, 1, 0, 0>>, <<0, 0, 1, 1, 1, 0>>, <<0, 0, 0, 1, 1, 1>>}

max4_maxblock_2 ==
    {<<1, 1, 1, 0, 1, 0>>, <<1, 1, 1, 0, 0, 1>>, <<0, 1, 1, 1, 0, 1>>, <<1, 0, 1, 1, 1, 0>>,
     <<0, 1, 0, 1, 1, 1>>, <<1, 0, 0, 1, 1, 1>>, <<1, 0, 0, 1, 1, 1>>}
        \cup max3_maxblock_2 \cup max4_maxblock_3

max2_maxblock_1 ==
    {<<1, 1, 0, 0, 0, 0>>, <<0, 1, 1, 0, 0, 0>>, <<0, 0, 1, 1, 0, 0>>, <<0, 0, 0, 1, 1, 0>>,
     <<0, 0, 0, 0, 1, 1>>}

max3_maxblock_1 ==
    {<<1, 1, 0, 1, 0, 0>>, <<1, 1, 0, 0, 1, 0>>, <<1, 1, 0, 0, 0, 1>>, <<0, 1, 1, 0, 1, 0>>,
     <<0, 1, 1, 0, 0, 1>>, <<1, 0, 1, 1, 0, 0>>, <<0, 0, 1, 1, 0, 1>>, <<0, 1, 0, 1, 1, 0>>,
     <<1, 0, 0, 1, 1, 0>>, <<0, 0, 1, 0, 1, 1>>, <<0, 1, 0, 0, 1, 1>>, <<1, 0, 0, 0, 1, 1>>}
        \cup max2_maxblock_1 \cup max3_maxblock_2

\* The assignment of line 1036 without the condition of line 1035.
reduceLectureParametersRaising(perDay, asBlock) ==
    [max_lectures_per_day |-> perDay, max_lectures_as_block |-> perDay, forbidden_assignments |-> {}]

\* The reduction with elif between the three steps: at most one of them is
\* taken.
reduceLectureParametersOneStep(perDay, asBlock) ==
    LET b1 == IF asBlock > perDay THEN perDay ELSE asBlock
        p1 == IF perDay = 6 /\ b1 # 6 THEN 5
              ELSE IF perDay = 5 /\ b1 < 3 THEN 4
              ELSE IF perDay = 4 /\ b1 < 2 THEN 3 ELSE perDay
    IN  [max_lectures_per_day |-> p1, max_lectures_as_block |-> b1, forbidden_assignments |-> {}]

\* The step from 4 to 3 taken for every max_lectures_as_block below 3.
reduceLectureParametersEager(perDay, asBlock) ==
    LET b1 == IF asBlock > perDay THEN perDay ELSE asBlock
        p1 == IF perDay = 6 /\ b1 # 6 THEN 5 ELSE perDay
        p2 == IF p1 = 5 /\ b1 < 3 THEN 4 ELSE p1
        p3 == IF p2 = 4 /\ b1 < 3 THEN 3 ELSE p2
    IN  [max_lectures_per_day |-> p3, max_lectures_as_block |-> b1, forbidden_assignments |-> {}]

\* The in-place reduction of a teacher's two lecture parameters and the
\* selection of the forbidden assignments, statement by statement.
reduceLectureParameters(perDay, asBlock) ==
    LET b1 == IF asBlock > perDay THEN perDay ELSE asBlock
        p1 == IF perDay = 6 /\ b1 # 6 THEN 5 ELSE perDay
        f1 == IF p1 = 5 /\ b1 = 4 THEN max5_maxblock_4
              ELSE IF p1 = 5 /\ b1 = 3 THEN max5_maxblock_3 ELSE {}
        p2 == IF p1 = 5 /\ b1 # 4 /\ b1 # 3 /\ b1 < 3 THEN 4 ELSE p1
        f2 == IF p2 = 4 /\ b1 = 3 THEN max4_maxblock_3
              ELSE IF p2 = 4 /\ b1 = 2 THEN max4_maxblock_2 ELSE f1
        p3 == IF p2 = 4 /\ b1 # 3 /\ b1 # 2 /\ b1 < 2 THEN 3 ELSE p2
        f3 == IF p3 = 3 /\ b1 = 2 THEN max3_maxblock_2
              ELSE IF p3 = 3 /\ b1 = 1 THEN max3_maxblock_1 ELSE f2
        f4 == IF p3 = 2 /\ b1 = 1 THEN max2_maxblock_1 ELSE f3
    IN  [max_lectures_per_day |-> p3, max_lectures_as_block |-> b1, forbidden_assignments |-> f4]

\* model.AddForbiddenAssignments(boolVarList, forbidden_assignments) for every day.
addMaxLecturesAsBlockTeacherConstraints(sc, tv, forbidden) ==
    \A teacher \in Teachers(sc), d \in 1 .. WEEKDAYS :
        LET boolVarList ==
                [n \in 1 .. TIMESLOTS_PER_DAY |->
                    timeslotLectureBoolMap(sc, tv, teacher, (d - 1) * TIMESLOTS_PER_DAY + n)]
        IN  boolVarList \notin forbidden[teacher]

lecturesForTeacher(sc, teacher) ==
    LET lectures == {l \in teacherLessons(sc, teacher) : sc.courses[sc.lessons[l].course].is_lecture}
    IN  {l \in lectures : sc.lessons[l].lessons_at_same_time = {}}
            \cup {maxByTimeslotSize(sc, sameTimeSet \cap lectures) :
                    sameTimeSet \in {s \in getLessonsAtSameTimeSets(sc) : s \cap lectures # {}}}

\* sum(lessonOccurrenceList) <= teacher.max_lectures_per_day, with the value
\* the field holds when the constraint is added.
addMaxLecturesPerDayTeacherConstraints(sc, tv, maxPosted) ==
    \A teacher \in Teachers(sc), d \in 1 .. WEEKDAYS :
        sizeOnDay(sc, tv, lecturesForTeacher(sc, teacher), d) <= maxPosted[teacher]

(***************************************************************************)
(* Other constraints.                                                      *)
(***************************************************************************)
studyDay1BoolVar(sd, teacher) == sd[teacher][1]

\* The first variable is reused if the two choices are the same day.
studyDay2BoolVar(sd, teacher) == sd[teacher][Len(sd[teacher])]

\* No study day boolean has to be true.
studyDayBoolOrDropped(sd, teacher) == TRUE

\* model.AddBoolOr([teacher.studyDay1BoolVar, teacher.studyDay2BoolVar])
studyDayBoolOr(sd, teacher) == studyDay1BoolVar(sd, teacher) \/ studyDay2BoolVar(sd, teacher)

addTeacherStudyDayConstraints(sc, tv, sd) ==
    \A teacher \in {t \in Teachers(sc) : hasStudyday(sc.teachers[t])} :
        LET studyDay1ID == getWeekdayID(sc.teachers[teacher].study_day_1)
            studyDay2ID == getWeekdayID(sc.teachers[teacher].study_day_2)
        IN  teacherLessons(sc, teacher) # {} =>
                /\ \A lesson \in teacherLessons(sc, teacher) :
                        /\ studyDay1BoolVar(sd, teacher) => studyDay1ID # weekdayVar(tv, lesson)
                        /\ (studyDay1ID # studyDay2ID /\ studyDay2BoolVar(sd, teacher)) =>
                                studyDay2ID # weekdayVar(tv, lesson)
                /\ studyDayBoolOr(sd, teacher)

\* The values the two constraints on inRoom leave to it.
inRoomValues(rv, lesson, room) ==
    {inRoom \in BOOLEAN : (inRoom => rv[lesson] = room) /\ (~inRoom => rv[lesson] # room)}

\* Only the first timeVar of the lesson is kept off the timeslots.
addRoomNotAvailableConstraintsStartOnly(sc, tv, rv) ==
    \A room \in {r \in 1 .. Len(sc.rooms) : sc.rooms[r].not_available_timeslots # {}} :
        \A lesson \in {l \in Lessons(sc) : room \in sc.courses[sc.lessons[l].course].possible_rooms} :
            \E inRoom \in inRoomValues(rv, lesson, room) :
                inRoom => \A timeslot \in sc.rooms[room].not_available_timeslots :
                                tv[lesson][1] # timeslot

addRoomNotAvailableConstraints(sc, tv, rv) ==
    \A room \in {r \in 1 .. Len(sc.rooms) : sc.rooms[r].not_available_timeslots # {}} :
        \A lesson \in {l \in Lessons(sc) : room \in sc.courses[sc.lessons[l].course].possible_rooms} :
            \E inRoom \in inRoomValues(rv, lesson, room) :
                inRoom => \A timeslot \in sc.rooms[room].not_available_timeslots :
                                \A i \in 1 .. Len(tv[lesson]) : tv[lesson][i] # timeslot

\* Course.getAllTimeVars: the values of the timeVars of all lessons of a course.
getAllTimeVars(sc, tv, c) == UNION {{tv[l][i] : i \in 1 .. Len(tv[l])} : l \in courseLessons(sc, c)}

blocksize(sc, c) == Sum([l \in courseLessons(sc, c) |-> timeslot_size(sc, l)], courseLessons(sc, c))

\* model.NewIntervalVar(minVar, blocksize - 1, maxVar, "")
blockInterval(sc, minVar, maxVar, c) == [start |-> minVar, size |-> blocksize(sc, c) - 1, end |-> maxVar]

addCourseAllInOneBlockConstraints(sc, tv, rv) ==
    \A c \in {k \in Courses(sc) : sc.courses[k].all_in_one_block} :
        blocksize(sc, c) > 1 =>
            LET lastStartPossible == TIMESLOTS_PER_DAY + 1 - blocksize(sc, c)
                minVar == Min(getAllTimeVars(sc, tv, c))
                maxVar == Max(getAllTimeVars(sc, tv, c))
                minHourNumberVar == minVar % TIMESLOTS_PER_DAY
            IN  /\ IntervalVar(blockInterval(sc, minVar, maxVar, c))
                /\ minHourNumberVar \in 1 .. lastStartPossible
                /\ \A l1 \in courseLessons(sc, c), l2 \in courseLessons(sc, c) : rv[l1] = rv[l2]

\* The consecutive lesson starts at any timeslot after the lesson.
startsSometimeAfter(tv, lesson, consecutiveLesson) ==
    tv[lesson][Len(tv[lesson])] < tv[consecutiveLesson][1]

\* model.Add(lesson.timeVars[-1] + 1 == consecutiveLesson.timeVars[0])
startsAfter(tv, lesson, consecutiveLesson) ==
    tv[lesson][Len(tv[lesson])] + 1 = tv[consecutiveLesson][1]

addConsecutiveLessonsConstraints(sc, tv) ==
    \A lesson \in Lessons(sc) :
        \A consecutiveLesson \in sc.lessons[lesson].lessons_consecutive :
            /\ weekdayVar(tv, lesson) = weekdayVar(tv, consecutiveLesson)
            /\ startsAfter(tv, lesson, consecutiveLesson)

\* Teacher.getCourses restricted to the one_per_day_per_teacher courses.
one_per_day_courses(sc, teacher) ==
    {c \in Courses(sc) :
        /\ sc.courses[c].one_per_day_per_teacher
        /\ \E l \in courseLessons(sc, c) : teacher \in sc.lessons[l].teachers}

\* Both loops left after the first lesson, whatever the course.
visitedLessonsFirstOnly(sc, teacher, c) == {Min(courseLessons(sc, c) \cap teacherLessons(sc, teacher))}

\* The lessons of a course the pair loops visit for a teacher: all of them, or
\* only the first one if the course is all_in_one_block.
visitedLessons(sc, teacher, c) ==
    LET withTeacher == courseLessons(sc, c) \cap teacherLessons(sc, teacher)
    IN  IF sc.courses[c].all_in_one_block THEN {Min(withTeacher)} ELSE withTeacher

addOneCoursePerDayPerTeacherConstraints(sc, tv) ==
    \A teacher \in Teachers(sc) :
        \A ci \in one_per_day_courses(sc, teacher), cj \in one_per_day_courses(sc, teacher) :
            ci < cj =>
                \A i_lesson \in visitedLessons(sc, teacher, ci),
                   j_lesson \in visitedLessons(sc, teacher, cj) :
                    weekdayVar(tv, i_lesson) # weekdayVar(tv, j_lesson)

(***************************************************************************)
(* Solution: timeslotMap maps every timeslot to the list of (lesson, room) *)
(* tuples added for it.                                                    *)
(***************************************************************************)
LESSON_IDX == 1

ROOM_IDX == 2

emptyTimeslotMap == [t \in Timeslots |-> << >>]

addLesson(sol, lesson, room, timeslot) == [sol EXCEPT ![timeslot] = Append(@, << lesson, room >>)]

\* sol.addLesson with the first timeVar of the lesson in every pass of the loop.
addTimeVarsAtStart(sol, tv, rv, lesson, i) ==
    [sol EXCEPT ![tv[lesson][1]] = @ \o [k \in 1 .. Len(tv[lesson]) |-> << lesson, rv[lesson] >>]]

\* for tVar in lesson.timeVars: sol.addLesson(lesson, room, timeslot)
RECURSIVE addTimeVars(_, _, _, _, _)
addTimeVars(sol, tv, rv, lesson, i) ==
    IF i > Len(tv[lesson]) THEN sol
    ELSE addTimeVars(addLesson(sol, lesson, rv[lesson], tv[lesson][i]), tv, rv, lesson, i + 1)

\* for lesson in self.orm.getLessons(): ...
RECURSIVE buildSolution(_, _, _, _, _)
buildSolution(sol, tv, rv, lesson, n) ==
    IF lesson > n THEN sol
    ELSE buildSolution(addTimeVars(sol, tv, rv, lesson, 1), tv, rv, lesson + 1, n)

\* The lessons of the tuples of a timeslot, as a set.
lessonsAt(sol, t) == {sol[t][i][LESSON_IDX] : i \in 1 .. Len(sol[t])}

roomsAt(sol, t) == {sol[t][i][ROOM_IDX] : i \in 1 .. Len(sol[t])}

RECURSIVE timeslotsUpTo(_, _, _)
timeslotsUpTo(sol, lesson, n) ==
    IF n = 0 THEN << >>
    ELSE timeslotsUpTo(sol, lesson, n - 1)
            \o [k \in 1 .. Cardinality({i \in 1 .. Len(sol[n]) : sol[n][i][LESSON_IDX] = lesson}) |-> n]

\* Solution.getTimeslotsOfLesson: the map is walked in timeslot order.
getTimeslotsOfLesson(sol, lesson) == timeslotsUpTo(sol, lesson, WEEKDAYS * TIMESLOTS_PER_DAY)

\* Solution.getRoomOfLesson: the room of the first tuple found for the lesson.
getRoomOfLesson(sol, lesson) ==
    LET t == getTimeslotsOfLesson(sol, lesson)[1]
        i == Min({k \in 1 .. Len(sol[t]) : sol[t][k][LESSON_IDX] = lesson})
    IN  sol[t][i][ROOM_IDX]

\* The lessons that have a tuple on weekday d.
lessonsOnDay(sol, d) == UNION {lessonsAt(sol, t) : t \in getTimeslotsPerDay[d]}

(***************************************************************************)
(* SolutionValidation.                                                     *)
(***************************************************************************)
\* lessonSets of the two time validators: one set per same-time group that
\* has a lesson at the timeslot.
lessonSetsAt(sc, sol, t) ==
    {lessonsSameTime(sc, l) : l \in {m \in lessonsAt(sol, t) : sc.lessons[m].lessons_at_same_time # {}}}

validateTeacherTimeConstraints(sc, sol) ==
    \A t \in Timeslots :
        LET filteredSets == [s \in lessonSetsAt(sc, sol, t) |-> s \cap lessonsAt(sol, t)]
            multipleTeacherCount ==
                Sum([s \in lessonSetsAt(sc, sol, t) |->
                        Sum([l \in filteredSets[s] |-> Cardinality(sc.lessons[l].teachers)], filteredSets[s])
                            - Cardinality(UNION {sc.lessons[l].teachers : l \in filteredSets[s]})],
                    lessonSetsAt(sc, sol, t))
            teacherListLen ==
                Sum([i \in 1 .. Len(sol[t]) |-> Cardinality(sc.lessons[sol[t][i][LESSON_IDX]].teachers)],
                    1 .. Len(sol[t]))
            teacherSet == UNION {sc.lessons[l].teachers : l \in lessonsAt(sol, t)}
        IN  teacherListLen = multipleTeacherCount + Cardinality(teacherSet)

validateRoomTimeConstraints(sc, sol) ==
    \A t \in Timeslots :
        LET filteredSets == [s \in lessonSetsAt(sc, sol, t) |-> s \cap lessonsAt(sol, t)]
            roomListIdx(s) == {i \in 1 .. Len(sol[t]) : sol[t][i][LESSON_IDX] \in filteredSets[s]}
            multipleRoomCount ==
                Sum([s \in lessonSetsAt(sc, sol, t) |->
                        Cardinality(roomListIdx(s))
                            - Cardinality({sol[t][i][ROOM_IDX] : i \in roomListIdx(s)})],
                    lessonSetsAt(sc, sol, t))
        IN  Len(sol[t]) = multipleRoomCount + Cardinality(roomsAt(sol, t))

\* The two checks of validateSemesterGroupTimeConstraints for one timeslot
\* and one semester group.
semesterGroupCheck1(sc, sol, t, semesterGroup) ==
    LET idxWithSemesterGroup ==
            {i \in 1 .. Len(sol[t]) :
                semesterGroup \in sc.courses[sc.lessons[sol[t][i][LESSON_IDX]].course].semester_groups}
        idxWithPartGroup ==
            {i \in idxWithSemesterGroup : ~sc.lessons[sol[t][i][LESSON_IDX]].whole_semester_group}
        lessonsAtSameTime ==
            UNION {sc.lessons[sol[t][i][LESSON_IDX]].lessons_at_same_time : i \in idxWithSemesterGroup}
    IN  \/ Cardinality(idxWithSemesterGroup) <= 1
        \/ Cardinality(idxWithPartGroup) = Cardinality(idxWithSemesterGroup)
        \/ Cardinality(lessonsAtSameTime) = Cardinality(idxWithSemesterGroup)

semesterGroupCheck2(sc, sol, t, semesterGroup) ==
    LET idxWithPartGroup ==
            {i \in 1 .. Len(sol[t]) :
                /\ semesterGroup \in sc.courses[sc.lessons[sol[t][i][LESSON_IDX]].course].semester_groups
                /\ ~sc.lessons[sol[t][i][LESSON_IDX]].whole_semester_group}
        coursesWithPartGroup == {sc.lessons[sol[t][i][LESSON_IDX]].course : i \in idxWithPartGroup}
    IN  Cardinality(coursesWithPartGroup) < 2 \/ Cardinality(idxWithPartGroup) <= 2

validateSemesterGroupTimeConstraints(sc, sol) ==
    \A t \in Timeslots, semesterGroup \in SemesterGroups(sc) :
        semesterGroupCheck1(sc, sol, t, semesterGroup) /\ semesterGroupCheck2(sc, sol, t, semesterGroup)

validateStudyDays(sc, sol) ==
    \A teacher \in {t \in Teachers(sc) : hasStudyday(sc.teachers[t])} :
        LET studyDay1Timeslots == getTimeslotsPerDay[getWeekdayID(sc.teachers[teacher].study_day_1)]
            studyDay2Timeslots == getTimeslotsPerDay[getWeekdayID(sc.teachers[teacher].study_day_2)]
            free(timeslots) ==
                \A t \in timeslots : \A l \in lessonsAt(sol, t) : teacher \notin sc.lessons[l].teachers
        IN  free(studyDay1Timeslots) \/ free(studyDay2Timeslots)

validateLessonTime(sc, sol) ==
    \A lesson \in Lessons(sc) :
        LET timeslots == getTimeslotsOfLesson(sol, lesson)
        IN  \A i \in 1 .. timeslot_size(sc, lesson) - 1 :
                /\ number(timeslots[i]) + 1 = number(timeslots[i + 1])
                /\ weekday_number(timeslots[i]) = weekday_number(timeslots[i + 1])

validateRoomNotAvailableTimes(sc, sol) ==
    \A room \in 1 .. Len(sc.rooms) :
        \A timeslot \in sc.rooms[room].not_available_timeslots : room \notin roomsAt(sol, timeslot)

validateTeacherNotAvailableTimes(sc, sol) ==
    \A teacher \in Teachers(sc) :
        \A timeslot \in sc.teachers[teacher].not_available_timeslots :
            \A l \in lessonsAt(sol, timeslot) : teacher \notin sc.lessons[l].teachers

validateForenoonLessons(sc, sol) ==
    \A timeslot \in {t \in Timeslots : number(t) \notin getForenoonTimeslotNumbers} :
        \A l \in lessonsAt(sol, timeslot) : ~sc.courses[sc.lessons[l].course].only_forenoon

\* The timeslot at which validateAllLessonsAsBlockCourses finds the course first.
firstOccurrence(sc, sol, c) ==
    Min({t \in Timeslots : \E l \in lessonsAt(sol, t) : sc.lessons[l].course = c})

validateAllLessonsAsBlockCourses(sc, sol) ==
    \A c \in {k \in Courses(sc) : sc.courses[k].all_in_one_block} :
        \A t \in firstOccurrence(sc, sol, c) .. (firstOccurrence(sc, sol, c) + blocksize(sc, c) - 1) :
            /\ \E l \in lessonsAt(sol, t) : sc.lessons[l].course = c
            /\ weekday_number(t) = weekday_number(firstOccurrence(sc, sol, c))

\* orm.getTimeslots()[i] raises an IndexError behind the last timeslot.
raisesAllLessonsAsBlockCourses(sc, sol) ==
    \E c \in {k \in Courses(sc) : sc.courses[k].all_in_one_block} :
        firstOccurrence(sc, sol, c) + blocksize(sc, c) - 1 > WEEKDAYS * TIMESLOTS_PER_DAY

\* HelperFunctions.getSameTimeLessonSets with a teacher, filterForLessonsList False.
getSameTimeLessonSets(sc, lessons, teacher, lecture) ==
    {{m \in lessonsSameTime(sc, l) :
            /\ ~lecture \/ sc.courses[sc.lessons[m].course].is_lecture
            /\ teacher \in sc.lessons[m].teachers} :
        l \in {x \in lessons : sc.lessons[x].lessons_at_same_time # {}}} \ {{}}

\* timeCount of the two per teacher validators.
timeCount(sc, lessons, lessonSetList) ==
    Sum([l \in lessons |-> IF sc.lessons[l].lessons_at_same_time = {} THEN timeslot_size(sc, l) ELSE 0],
        lessons)
        + Sum([s \in lessonSetList |-> Max({timeslot_size(sc, l) : l \in s})], lessonSetList)

validateMaxLessonsPerDayPerTeacher(sc, sol) ==
    \A teacher \in Teachers(sc), d \in 1 .. WEEKDAYS :
        LET lessonsWithTeacher == lessonsOnDay(sol, d) \cap teacherLessons(sc, teacher)
            lessonSetList == getSameTimeLessonSets(sc, lessonsWithTeacher, teacher, FALSE)
        IN  timeCount(sc, lessonsWithTeacher, lessonSetList) <= sc.teachers[teacher].max_lessons_per_day

validateMaxLecturesPerDayPerTeacher(sc, sol) ==
    \A teacher \in Teachers(sc), d \in 1 .. WEEKDAYS :
        LET lecturesWithTeacher ==
                {l \in lessonsOnDay(sol, d) \cap teacherLessons(sc, teacher) :
                    sc.courses[sc.lessons[l].course].is_lecture}
            lessonSetList == getSameTimeLessonSets(sc, lecturesWithTeacher, teacher, TRUE)
        IN  timeCount(sc, lecturesWithTeacher, lessonSetList) <= sc.teachers[teacher].max_lessons_per_day

\* timeslotCount is set back to 0 before the part-cohort count, and the second
\* loop again walks lessonsWithWholeSG.
validateMaxLessonsPerDayPerSemesterGroup(sc, sol) ==
    \A sg \in SemesterGroups(sc), d \in 1 .. WEEKDAYS :
        LET lessonsWithSG == lessonsOnDay(sol, d) \cap getLessons(sc, sg)
            wholeLessons == {l \in lessonsWithSG : sc.lessons[l].whole_semester_group}
            lessonsWithPartSG == {l \in lessonsWithSG : ~sc.lessons[l].whole_semester_group}
            sameTimeSets ==
                {{x \in lessonsSameTime(sc, l) : ~sc.lessons[x].whole_semester_group} :
                    l \in {y \in lessonsWithPartSG : sc.lessons[y].lessons_at_same_time # {}}}
        IN  timeCount(sc, wholeLessons, sameTimeSets) <= sc.semester_groups[sg].max_lessons_per_day

validateBlocksOnlyInSameRoom(sc, sol) ==
    \A c \in {k \in Courses(sc) : sc.courses[k].all_in_one_block} :
        Cardinality({getRoomOfLesson(sol, l) : l \in courseLessons(sc, c)}) = 1

validateLessonTakePlaceOnOneDay(sc, sol) ==
    \A lesson \in {l \in Lessons(sc) : timeslot_size(sc, l) > 1} :
        LET timeslots == getTimeslotsOfLesson(sol, lesson)
        IN  Cardinality({weekday_number(timeslots[i]) : i \in 1 .. Len(timeslots)}) = 1

validateOnlyOneNotAllInOneBlockLessonPerDay(sc, sol) ==
    \A c \in {k \in Courses(sc) : ~sc.courses[k].all_in_one_block} :
        LET relevantLessons ==
                {l \in courseLessons(sc, c) :
                    sc.lessons[l].whole_semester_group /\ sc.lessons[l].lessons_at_same_time = {}}
            weekdaySet == {weekday_number(getTimeslotsOfLesson(sol, l)[1]) : l \in relevantLessons}
        IN  Cardinality(weekdaySet) = Cardinality(relevantLessons)

\* The error message of a failed course reads the undefined names
\* sameDayCorrection and lessonsWithWholeSG: a NameError.
raisesOnlyOneNotAllInOneBlockLessonPerDay(sc, sol) == ~validateOnlyOneNotAllInOneBlockLessonPerDay(sc, sol)

validateGivenTimeslots(sc, sol) ==
    \A lesson \in {l \in Lessons(sc) : sc.lessons[l].available_timeslots # {}} :
        LET timeslots == getTimeslotsOfLesson(sol, lesson)
        IN  \A i \in 1 .. Len(timeslots) : timeslots[i] \in sc.lessons[lesson].available_timeslots

validateOneCoursePerDayPerTeacher(sc, sol) ==
    \A teacher \in Teachers(sc) :
        LET courseWeekdays(c) ==
                {weekday_number(getTimeslotsOfLesson(sol, l)[1]) :
                    l \in courseLessons(sc, c) \cap teacherLessons(sc, teacher)}
        IN  \A ci \in one_per_day_courses(sc, teacher), cj \in one_per_day_courses(sc, teacher) :
                ci < cj => courseWeekdays(ci) \cap courseWeekdays(cj) = {}

\* The loop of validateMaxLecturesAsBlockForTeacher from timeslot t on.  It
\* asks whether the teacher object is in a list of lesson objects.
RECURSIVE lectureBlocksValid(_, _, _, _, _, _)
lectureBlocksValid(sc, sol, teacher, asBlock, t, run) ==
    IF t > WEEKDAYS * TIMESLOTS_PER_DAY THEN TRUE
    ELSE LET start == IF number(t) = 1 THEN 0 ELSE run
             lectures ==
                {l \in lessonsAt(sol, t) :
                    sc.courses[sc.lessons[l].course].is_lecture /\ teacher \in sc.lessons[l].teachers}
             found == << "Teacher", teacher >> \in {<< "Lesson", l >> : l \in lectures}
         IN  /\ found => start + 1 <= asBlock
             /\ lectureBlocksValid(sc, sol, teacher, asBlock, t + 1, IF found THEN start + 1 ELSE 0)

validateMaxLecturesAsBlockForTeacher(sc, sol, asBlock) ==
    \A teacher \in Teachers(sc) : lectureBlocksValid(sc, sol, teacher, asBlock[teacher], 1, 0)

validateSameTimeLessons(sc, sol) ==
    \A lesson \in {l \in Lessons(sc) : sc.lessons[l].lessons_at_same_time # {}} :
        Cardinality({getTimeslotsOfLesson(sol, l)[1] : l \in lessonsSameTime(sc, lesson)}) = 1

validateConsecutiveLessons(sc, sol) ==
    \A lesson \in Lessons(sc) :
        LET timeslots == getTimeslotsOfLesson(sol, lesson)
            lessonEnd == timeslots[Len(timeslots)]
        IN  \A conLesson \in sc.lessons[lesson].lessons_consecutive :
                LET conLessonStart == getTimeslotsOfLesson(sol, conLesson)[1]
                IN  /\ number(lessonEnd) + 1 = number(conLessonStart)
                    /\ weekday_number(lessonEnd) = weekday_number(conLessonStart)

validateTimeslotVarHelperVariables(sc, sol, tv) ==
    \A lesson \in Lessons(sc) :
        LET timeslots == getTimeslotsOfLesson(sol, lesson)
        IN  \A t \in Timeslots :
                (timeslotBoolVars(tv, lesson, t) = 1) <=> (\E i \in 1 .. Len(timeslots) : timeslots[i] = t)

\* validateSolution: "error" if a validator raises, else whether all hold.
validateSolution(sc, sol, tv, asBlock) ==
    IF raisesAllLessonsAsBlockCourses(sc, sol) \/ raisesOnlyOneNotAllInOneBlockLessonPerDay(sc, sol)
    THEN "error"
    ELSE IF /\ validateTeacherTimeConstraints(sc, sol)
            /\ validateRoomTimeConstraints(sc, sol)
            /\ validateSemesterGroupTimeConstraints(sc, sol)
            /\ validateStudyDays(sc, sol)
            /\ validateAllLessonsAsBlockCourses(sc, sol)
            /\ validateBlocksOnlyInSameRoom(sc, sol)
            /\ validateConsecutiveLessons(sc, sol)
            /\ validateForenoonLessons(sc, sol)
            /\ validateGivenTimeslots(sc, sol)
            /\ validateLessonTakePlaceOnOneDay(sc, sol)
            /\ validateLessonTime(sc, sol)
            /\ validateMaxLessonsPerDayPerTeacher(sc, sol)
            /\ validateMaxLessonsPerDayPerSemesterGroup(sc, sol)
            /\ validateMaxLecturesPerDayPerTeacher(sc, sol)
            /\ validateMaxLecturesAsBlockForTeacher(sc, sol, asBlock)
            /\ validateOneCoursePerDayPerTeacher(sc, sol)
            /\ validateOnlyOneNotAllInOneBlockLessonPerDay(sc, sol)
            /\ validateRoomNotAvailableTimes(sc, sol)
            /\ validateTeacherNotAvailableTimes(sc, sol)
            /\ validateSameTimeLessons(sc, sol)
            /\ validateTimeslotVarHelperVariables(sc, sol, tv)
         THEN "valid"
         ELSE "invalid"

(***************************************************************************)
(* The state machine: TimeTabling.main with SEARCH_FOR_INVALIDS, followed  *)
(* up to the solver's first call of SolutionValidator.OnSolutionCallback.  *)
(***************************************************************************)
VARIABLES
    inst,                   \* the loaded data: catalogue index and the lecture parameters
    pc,                     \* position of main
    posted,                 \* the constraint functions that have added to the model
    max_lectures_per_day,   \* Teacher.max_lectures_per_day, by teacher
    max_lectures_as_block,  \* Teacher.max_lectures_as_block, by teacher
    forbidden_assignments,  \* the forbidden assignments posted, by teacher
    maxLecturesPosted,      \* the right-hand side posted by addMaxLecturesPerDayTeacherConstraints
    timeVars,               \* solver values of the timeVars, by lesson
    roomVar,                \* solver values of the roomVars, by lesson
    studyDayBoolVars,       \* solver values of the study day booleans, by teacher
    timeslotMap,            \* Solution.timeslotMap of the Solution built by the callback
    isValid,                \* outcome of validateSolution for it
    solution_count,         \* __solution_count of the solution callback
    invalidCount,           \* SolutionValidator.__invalidCount
    params,                 \* the program arguments main reads
    status,                 \* the status the solver returned to main
    printed,                \* calls of solution_callback.PrintTimeTable by main
    plausible,              \* the values the plausibilityCheck calls of main have returned
    logged                  \* the logger.error calls of the plausibility checks

vars ==
    << inst, pc, posted, max_lectures_per_day, max_lectures_as_block, forbidden_assignments,
       maxLecturesPosted, timeVars, roomVar, studyDayBoolVars, timeslotMap, isValid,
       solution_count, invalidCount, params, status, printed, plausible, logged >>

scenario == Catalogue[inst.graph]

entityVars == << max_lectures_per_day, max_lectures_as_block >>

modelVars == << forbidden_assignments, maxLecturesPosted >>

solutionVars ==
    << timeVars, roomVar, studyDayBoolVars, timeslotMap, isValid, solution_count, invalidCount >>

searchVars == << params, status, printed >>

checkVars == << plausible, logged >>

PRINT_NONE == 0

PRINT_BEST == 1

PRINT_ALL == 2

\* The defaults of the program arguments, with SEARCH_FOR_INVALIDS set.
validatingParams ==
    [SEARCH_FOR_INVALIDS |-> TRUE, export |-> FALSE, print_solutions |-> PRINT_BEST]

Init ==
    /\ \E i \in DOMAIN Catalogue : \E pb \in Catalogue[i].sweep :
            \E gated \in onlyEnforceIfChoices(Catalogue[i]) :
                inst = [graph |-> i, max_lectures_per_day |-> pb[1], max_lectures_as_block |-> pb[2],
                        onlyEnforceIf |-> gated]
    /\ pc = "loaded"
    /\ posted = {}
    /\ max_lectures_per_day = [t \in Teachers(scenario) |-> inst.max_lectures_per_day]
    /\ max_lectures_as_block = [t \in Teachers(scenario) |-> inst.max_lectures_as_block]
    /\ forbidden_assignments = [t \in Teachers(scenario) |-> {}]
    /\ maxLecturesPosted = [t \in Teachers(scenario) |-> 0]
    /\ timeVars = << >>
    /\ roomVar = << >>
    /\ studyDayBoolVars = << >>
    /\ timeslotMap = << >>
    /\ isValid = "none"
    /\ solution_count = 0
    /\ invalidCount = 0
    /\ params = validatingParams
    /\ status = "NONE"
    /\ printed = 0
    /\ plausible = << >>
    /\ logged = {}

\* createLessonTimeAndRoomVariables and the three helper variable functions.
CreateVariables ==
    /\ pc = "loaded"
    /\ pc' = "variables"
    /\ posted' = posted \cup {"createLessonTimeAndRoomVariables"}
    /\ UNCHANGED << inst, checkVars, entityVars, modelVars, solutionVars >>
    /\ UNCHANGED searchVars

AddTimeConflictConstraints ==
    /\ pc = "variables"
    /\ pc' = "timeConflict"
    /\ posted' = posted \cup {"addTeacherTimeConstraints", "addSemesterGroupTimeConstraints",
                              "addRoomTimeConstraints"}
    /\ UNCHANGED << inst, checkVars, entityVars, modelVars, solutionVars >>
    /\ UNCHANGED searchVars

AddMaxPerDayConstraints ==
    /\ pc = "timeConflict"
    /\ pc' = "maxPerDay"
    /\ posted' = posted \cup {"addMaxLessonsPerDayTeacherConstraints",
                              "addMaxLessonsPerDaySemesterGroupConstraints",
                              "addMaxLessonsPerDayCourseConstraints"}
    /\ UNCHANGED << inst, checkVars, entityVars, modelVars, solutionVars >>
    /\ UNCHANGED searchVars

\* Reduces the two fields of every teacher in place and posts the selected
\* forbidden assignments.
AddMaxLecturesAsBlockTeacherConstraints ==
    /\ pc = "maxPerDay"
    /\ pc' = "lecturesAsBlock"
    /\ posted' = posted \cup {"addMaxLecturesAsBlockTeacherConstraints"}
    /\ max_lectures_per_day' =
            [t \in Teachers(scenario) |->
                reduceLectureParameters(max_lectures_per_day[t], max_lectures_as_block[t]).max_lectures_per_day]
    /\ max_lectures_as_block' =
            [t \in Teachers(scenario) |->
                reduceLectureParameters(max_lectures_per_day[t], max_lectures_as_block[t]).max_lectures_as_block]
    /\ forbidden_assignments' =
            [t \in Teachers(scenario) |->
                reduceLectureParameters(max_lectures_per_day[t], max_lectures_as_block[t]).forbidden_assignments]
    /\ UNCHANGED << inst, checkVars, maxLecturesPosted, solutionVars >>
    /\ UNCHANGED searchVars

\* The two lecture functions of main called in the other order: the sum is
\* posted before the parameters are reduced.
AddMaxLecturesPerDayTeacherConstraintsEarly ==
    /\ pc = "maxPerDay"
    /\ "addMaxLecturesPerDayTeacherConstraints" \notin posted
    /\ posted' = posted \cup {"addMaxLecturesPerDayTeacherConstraints"}
    /\ maxLecturesPosted' = max_lectures_per_day
    /\ UNCHANGED << inst, checkVars, pc, entityVars, forbidden_assignments, solutionVars >>
    /\ UNCHANGED searchVars

AddMaxLecturesPerDayTeacherConstraints ==
    /\ pc = "lecturesAsBlock"
    /\ pc' = "lecturesPerDay"
    /\ posted' = posted \cup {"addMaxLecturesPerDayTeacherConstraints"}
    /\ maxLecturesPosted' = max_lectures_per_day
    /\ UNCHANGED << inst, checkVars, entityVars, forbidden_assignments, solutionVars >>
    /\ UNCHANGED searchVars

\* The other constraints; main then starts the search.
AddOtherConstraints ==
    /\ pc = "lecturesPerDay"
    /\ pc' = "searching"
    /\ posted' = posted \cup {"addTeacherStudyDayConstraints", "addRoomNotAvailableConstraints",
                              "addCourseAllInOneBlockConstraints", "addConsecutiveLessonsConstraints",
                              "addOneCoursePerDayPerTeacherConstraints"}
    /\ UNCHANGED << inst, checkVars, entityVars, modelVars, solutionVars >>
    /\ UNCHANGED searchVars

\* The constraints of the built model that only read the timeVars.
timeConstraints(sc, tv) ==
    /\ "addTeacherTimeConstraints" \in posted => addTeacherTimeConstraints(sc, tv)
    /\ "addSemesterGroupTimeConstraints" \in posted => addSemesterGroupTimeConstraints(sc, tv)
    /\ "addMaxLessonsPerDayTeacherConstraints" \in posted => addMaxLessonsPerDayTeacherConstraints(sc, tv)
    /\ "addMaxLessonsPerDaySemesterGroupConstraints" \in posted =>
            addMaxLessonsPerDaySemesterGroupConstraints(sc, tv)
    /\ "addMaxLessonsPerDayCourseConstraints" \in posted => addMaxLessonsPerDayCourseConstraints(sc, tv)
    /\ "addMaxLecturesAsBlockTeacherConstraints" \in posted =>
            addMaxLecturesAsBlockTeacherConstraints(sc, tv, forbidden_assignments)
    /\ "addMaxLecturesPerDayTeacherConstraints" \in posted =>
            addMaxLecturesPerDayTeacherConstraints(sc, tv, maxLecturesPosted)
    /\ "addConsecutiveLessonsConstraints" \in posted => addConsecutiveLessonsConstraints(sc, tv)
    /\ "addOneCoursePerDayPerTeacherConstraints" \in posted =>
            addOneCoursePerDayPerTeacherConstraints(sc, tv)

\* The constraints that also read the roomVars.
roomConstraints(sc, tv, rv) ==
    /\ "addRoomTimeConstraints" \in posted => addRoomTimeConstraints(sc, tv, rv, inst.onlyEnforceIf)
    /\ "addRoomNotAvailableConstraints" \in posted => addRoomNotAvailableConstraints(sc, tv, rv)
    /\ "addCourseAllInOneBlockConstraints" \in posted => addCourseAllInOneBlockConstraints(sc, tv, rv)

studyDayConstraints(sc, tv, sd) ==
    "addTeacherStudyDayConstraints" \in posted => addTeacherStudyDayConstraints(sc, tv, sd)

\* The solver reports an assignment that satisfies the model, and
\* SolutionValidator.OnSolutionCallback builds and validates the Solution.
OnSolutionCallback ==
    /\ pc = "searching"
    /\ solution_count = 0
    /\ \E gv \in {g \in TimeVarValues(scenario, Len(scenario.lessons)) :
                        timeConstraints(scenario, lessonTimeVars(scenario, g))} :
        LET tv == lessonTimeVars(scenario, gv)
        IN  \E rv \in {r \in RoomVarValues(scenario, Len(scenario.lessons)) :
                            roomConstraints(scenario, tv, r)} :
                \E sd \in {s \in StudyDayValues(scenario, Len(scenario.teachers)) :
                                studyDayConstraints(scenario, tv, s)} :
                    /\ LET sol == buildSolution(emptyTimeslotMap, tv, rv, 1, Len(scenario.lessons))
                           verdict == validateSolution(scenario, sol, tv, max_lectures_as_block)
                       IN  /\ timeVars' = tv
                           /\ roomVar' = rv
                           /\ studyDayBoolVars' = sd
                           /\ timeslotMap' = sol
                           /\ isValid' = verdict
                           /\ solution_count' = solution_count + 1
                           /\ invalidCount' = IF verdict = "invalid" THEN invalidCount + 1 ELSE invalidCount
                           /\ pc' = IF verdict = "error" THEN "raised" ELSE "searching"
    /\ UNCHANGED << inst, checkVars, posted, entityVars, modelVars >>
    /\ UNCHANGED searchVars

\* The solver returns from the search.
SearchFinished ==
    /\ pc = "searching"
    /\ pc' = "finished"
    /\ UNCHANGED << inst, checkVars, posted, entityVars, modelVars, solutionVars >>
    /\ UNCHANGED searchVars

Next ==
    \/ CreateVariables
    \/ AddTimeConflictConstraints
    \/ AddMaxPerDayConstraints
    \/ AddMaxLecturesAsBlockTeacherConstraints
    \/ AddMaxLecturesPerDayTeacherConstraints
    \/ AddOtherConstraints
    \/ OnSolutionCallback
    \/ SearchFinished

Spec == Init /\ [][Next]_vars

(***************************************************************************)
(* The validator on its own: a Solution is built, as the callback builds   *)
(* it, from any values of the timeVars and roomVars inside their domains,  *)
(* whether or not the values satisfy the constraints, and validateSolution *)
(* is applied to it.                                                       *)
(***************************************************************************)
\* The graphs of the catalogue validated this way: Block, Lectures,
\* LecturesTwo, CourseDays.
ValidatedGraphs == {i \in DOMAIN Catalogue : Catalogue[i] \in {Block, Lectures, LecturesTwo, CourseDays}}

InitSolution ==
    /\ \E i \in ValidatedGraphs : \E pb \in Catalogue[i].sweep :
            inst = [graph |-> i, max_lectures_per_day |-> pb[1], max_lectures_as_block |-> pb[2],
                    onlyEnforceIf |-> TRUE]
    /\ pc = "given"
    /\ posted = {"createLessonTimeAndRoomVariables"}
    /\ max_lectures_per_day = [t \in Teachers(scenario) |-> inst.max_lectures_per_day]
    /\ max_lectures_as_block = [t \in Teachers(scenario) |-> inst.max_lectures_as_block]
    /\ forbidden_assignments = [t \in Teachers(scenario) |-> {}]
    /\ maxLecturesPosted = [t \in Teachers(scenario) |-> 0]
    /\ \E gv \in TimeVarValues(scenario, Len(scenario.lessons)) :
            timeVars = lessonTimeVars(scenario, gv)
    /\ roomVar \in RoomVarValues(scenario, Len(scenario.lessons))
    /\ studyDayBoolVars = << >>
    /\ timeslotMap = emptyTimeslotMap
    /\ isValid = "none"
    /\ solution_count = 0
    /\ invalidCount = 0
    /\ params = validatingParams
    /\ status = "NONE"
    /\ printed = 0
    /\ plausible = << >>
    /\ logged = {}

\* Solution.addLesson for every timeVar of every lesson.
BuildSolution ==
    /\ pc = "given"
    /\ pc' = "built"
    /\ solution_count' = solution_count + 1
    /\ timeslotMap' = buildSolution(emptyTimeslotMap, timeVars, roomVar, 1, Len(scenario.lessons))
    /\ UNCHANGED << inst, checkVars, posted, entityVars, modelVars, timeVars, roomVar, studyDayBoolVars,
                    isValid, invalidCount >>
    /\ UNCHANGED searchVars

\* validateSolution(sol) inside the try of the callback.
ValidateSolution ==
    /\ pc = "built"
    /\ LET verdict == validateSolution(scenario, timeslotMap, timeVars, max_lectures_as_block)
       IN  /\ isValid' = verdict
           /\ invalidCount' = IF verdict = "invalid" THEN invalidCount + 1 ELSE invalidCount
           /\ pc' = IF verdict = "error" THEN "raised" ELSE "validated"
    /\ UNCHANGED << inst, checkVars, posted, entityVars, modelVars, timeVars, roomVar, studyDayBoolVars,
                    timeslotMap, solution_count >>
    /\ UNCHANGED searchVars

NextValidation ==
    \/ BuildSolution
    \/ ValidateSolution

SpecValidation == InitSolution /\ [][NextValidation]_vars

(***************************************************************************)
(* SoftConstraints: the counters and the objective function.  The values   *)
(* of the counters follow from the timeVars and the study day booleans.    *)
(***************************************************************************)
PREFER_FIRST_STUDYDAY_PENALTY == 30

SIXTH_HOUR_PENALTY == 5

FIFTH_HOUR_PENALTY == 3

FIRST_HOUR_PENALTY == 2

ONE_TIMESLOT_GAP_PENALTY == 3

TWO_TIMESLOT_GAP_PENALTY == 4

THREE_TIMESLOT_GAP_PENALTY == 4

FOUR_TIMESLOT_GAP_PENALTY == 3

ONE_DAY_GAP_PENALTY == 18

TWO_DAY_GAP_PENALTY == 30

THREE_DAY_GAP_PENALTY == 18

LESSONS_ON_FREE_DAY_PENALTY == 9

\* Only the first timeslot of a lesson is counted.
addCountLessonsAtNthHourStartOnly(sc, tv, timeslotNumber) ==
    Cardinality({l \in Lessons(sc) : number(tv[l][1]) = timeslotNumber})

\* nthHourCount: the sum of the timeslotBoolVars of all lessons at the
\* timeslots with the number.
addCountLessonsAtNthHour(sc, tv, timeslotNumber) ==
    LET boolVars == Lessons(sc) \X {t \in Timeslots : number(t) = timeslotNumber}
    IN  Sum([b \in boolVars |-> timeslotBoolVars(tv, b[1], b[2])], boolVars)

\* tOccupied of addCountGapsVariables.
timeslotOccupiedMap(sc, tv, sg, t) == \E l \in getLessons(sc, sg) : timeslotBoolVars(tv, l, t) = 1

\* The gap variable of size g at index i of the day (both counted from 0):
\* a lesson before and after, none at the g timeslots from index i on.
gap(sc, tv, sg, day, i, g) ==
    LET timeslot(index) == day * TIMESLOTS_PER_DAY + index + 1
    IN  /\ timeslotOccupiedMap(sc, tv, sg, timeslot(i - 1))
        /\ \A k \in i .. (i + g - 1) : ~timeslotOccupiedMap(sc, tv, sg, timeslot(k))
        /\ timeslotOccupiedMap(sc, tv, sg, timeslot(i + g))

\* oneGapCount, twoGapCount, threeGapCount and fourGapCount for g = 1 .. 4.
gapCount(sc, tv, sg, g) ==
    Cardinality({p \in (0 .. (WEEKDAYS - 1)) \X (1 .. (TIMESLOTS_PER_DAY - g - 1)) :
                    gap(sc, tv, sg, p[1], p[2], g)})

\* AddMaxEquality(workingDayBools[i], [l.weekdayBoolVars[i] for l in teacher.lessons])
workingDayBools(sc, tv, teacher, i) ==
    Max({weekdayBoolVars(tv, l, i + 1) : l \in teacherLessons(sc, teacher)})

\* AddMinEquality over the working day before, the negated g days from
\* dayIndex on and the working day after.
dayGap(sc, tv, teacher, dayIndex, g) ==
    Min({workingDayBools(sc, tv, teacher, dayIndex - 1), workingDayBools(sc, tv, teacher, dayIndex + g)}
            \cup {1 - workingDayBools(sc, tv, teacher, k) : k \in dayIndex .. (dayIndex + g - 1)})

\* oneDayGapCount, twoDayGapCount and threeDayGapCount for g = 1 .. 3.
dayGapCount(sc, tv, teacher, g) ==
    LET days == 1 .. (WEEKDAYS - g - 1)
    IN  Sum([dayIndex \in days |-> dayGap(sc, tv, teacher, dayIndex, g)], days)

lessonsOnFreeDay(sc, tv, group) ==
    LET freeDayId == getWeekdayID(sc.semester_groups[group].free_day)
    IN  Sum([l \in getLessons(sc, group) |-> weekdayBoolVars(tv, l, freeDayId)], getLessons(sc, group))

\* The domain of lessonsOnFreeDay is 0 .. max_lessons_per_day.
addFreeDaySemesterGroupVariables(sc, tv) ==
    \A group \in {sg \in SemesterGroups(sc) : sc.semester_groups[sg].free_day # "None"} :
        lessonsOnFreeDay(sc, tv, group) <= sc.semester_groups[group].max_lessons_per_day

\* The sum of the summands: the value of the objective function.
createObjectiveFunctionSummands(sc, tv, sd) ==
    LET studyDayTeachers ==
            {t \in Teachers(sc) : hasStudyday(sc.teachers[t]) /\ teacherLessons(sc, t) # {}}
        dayGapTeachers ==
            {t \in Teachers(sc) :
                sc.teachers[t].avoid_free_day_gaps /\ Cardinality(teacherLessons(sc, t)) > 1}
        freeDayGroups == {sg \in SemesterGroups(sc) : sc.semester_groups[sg].free_day # "None"}
    IN  Sum([t \in studyDayTeachers |->
                (IF studyDay1BoolVar(sd, t) THEN 0 ELSE 1) * PREFER_FIRST_STUDYDAY_PENALTY],
            studyDayTeachers)
        + addCountLessonsAtNthHour(sc, tv, 6) * SIXTH_HOUR_PENALTY
        + addCountLessonsAtNthHour(sc, tv, 5) * FIFTH_HOUR_PENALTY
        + addCountLessonsAtNthHour(sc, tv, 1) * FIRST_HOUR_PENALTY
        + Sum([sg \in SemesterGroups(sc) |->
                    gapCount(sc, tv, sg, 1) * ONE_TIMESLOT_GAP_PENALTY
                    + gapCount(sc, tv, sg, 2) * TWO_TIMESLOT_GAP_PENALTY
                    + gapCount(sc, tv, sg, 3) * THREE_TIMESLOT_GAP_PENALTY
                    + gapCount(sc, tv, sg, 4) * FOUR_TIMESLOT_GAP_PENALTY],
              SemesterGroups(sc))
        + Sum([t \in dayGapTeachers |->
                    dayGapCount(sc, tv, t, 1) * ONE_DAY_GAP_PENALTY
                    + dayGapCount(sc, tv, t, 2) * TWO_DAY_GAP_PENALTY
                    + dayGapCount(sc, tv, t, 3) * THREE_DAY_GAP_PENALTY],
              dayGapTeachers)
        + Sum([sg \in freeDayGroups |-> lessonsOnFreeDay(sc, tv, sg) * LESSONS_ON_FREE_DAY_PENALTY],
              freeDayGroups)

(***************************************************************************)
(* main without SEARCH_FOR_INVALIDS: the model is built as above, the      *)
(* solver is called with a TimeTablePrinter as callback, and main prints   *)
(* and exports according to the returned status.  The solver reports at    *)
(* most MaxSolutions incumbents in one search.                             *)
(***************************************************************************)
MaxSolutions == 2

SearchedGraphs ==
    {i \in DOMAIN Catalogue :
        Catalogue[i] \in {CourseDays, Overbooked, NoTimeslot, Wishes}}

InitSearch ==
    /\ \E i \in SearchedGraphs : \E pb \in Catalogue[i].sweep :
            inst = [graph |-> i, max_lectures_per_day |-> pb[1], max_lectures_as_block |-> pb[2],
                    onlyEnforceIf |-> TRUE]
    /\ pc = "loaded"
    /\ posted = {}
    /\ max_lectures_per_day = [t \in Teachers(scenario) |-> inst.max_lectures_per_day]
    /\ max_lectures_as_block = [t \in Teachers(scenario) |-> inst.max_lectures_as_block]
    /\ forbidden_assignments = [t \in Teachers(scenario) |-> {}]
    /\ maxLecturesPosted = [t \in Teachers(scenario) |-> 0]
    /\ timeVars = << >>
    /\ roomVar = << >>
    /\ studyDayBoolVars = << >>
    /\ timeslotMap = << >>
    /\ isValid = "none"
    /\ solution_count = 0
    /\ invalidCount = 0
    /\ params \in [SEARCH_FOR_INVALIDS : {FALSE}, export : BOOLEAN,
                   print_solutions : {PRINT_NONE, PRINT_BEST, PRINT_ALL}]
    /\ status = "NONE"
    /\ printed = 0
    /\ plausible = << >>
    /\ logged = {}

\* status = solver.SolveWithSolutionCallback(model, solution_callback) is entered.
SolveWithSolutionCallback ==
    /\ pc = "searching"
    /\ ~params.SEARCH_FOR_INVALIDS
    /\ pc' = "solving"
    /\ UNCHANGED << inst, checkVars, posted, entityVars, modelVars, solutionVars, searchVars >>

\* The objective value of the solver's current values.
ObjectiveValue == createObjectiveFunctionSummands(scenario, timeVars, studyDayBoolVars)

\* The solver reports an incumbent, which has a smaller objective value than
\* the one before: TimeTablePrinter.OnSolutionCallback.
PrinterOnSolutionCallback ==
    /\ pc = "solving"
    /\ solution_count < MaxSolutions
    /\ \E gv \in {g \in TimeVarValues(scenario, Len(scenario.lessons)) :
                        /\ timeConstraints(scenario, lessonTimeVars(scenario, g))
                        /\ addFreeDaySemesterGroupVariables(scenario, lessonTimeVars(scenario, g))} :
        LET tv == lessonTimeVars(scenario, gv)
        IN  \E rv \in {r \in RoomVarValues(scenario, Len(scenario.lessons)) :
                            roomConstraints(scenario, tv, r)} :
                \E sd \in {s \in StudyDayValues(scenario, Len(scenario.teachers)) :
                                /\ studyDayConstraints(scenario, tv, s)
                                /\ solution_count > 0 =>
                                        createObjectiveFunctionSummands(scenario, tv, s) < ObjectiveValue} :
                    /\ timeVars' = tv
                    /\ roomVar' = rv
                    /\ studyDayBoolVars' = sd
    /\ solution_count' = solution_count + 1
    /\ UNCHANGED << inst, checkVars, pc, posted, entityVars, modelVars, timeslotMap, isValid, invalidCount,
                    searchVars >>

\* A timeVar of the model has an empty domain.
emptyDomain ==
    \E l \in Lessons(scenario) : \E i \in 0 .. (maxLessonSize(scenario, l) - 1) :
        timeDomain(scenario, l, i) = {}

\* Some assignment satisfies the built model.
modelFeasible ==
    \E gv \in {g \in TimeVarValues(scenario, Len(scenario.lessons)) :
                    /\ timeConstraints(scenario, lessonTimeVars(scenario, g))
                    /\ addFreeDaySemesterGroupVariables(scenario, lessonTimeVars(scenario, g))} :
        /\ {r \in RoomVarValues(scenario, Len(scenario.lessons)) :
                roomConstraints(scenario, lessonTimeVars(scenario, gv), r)} # {}
        /\ {s \in StudyDayValues(scenario, Len(scenario.teachers)) :
                studyDayConstraints(scenario, lessonTimeVars(scenario, gv), s)} # {}

\* The statuses the solver can return: with an incumbent OPTIMAL or FEASIBLE,
\* without one UNKNOWN when the time limit ends the search, INFEASIBLE when
\* the model has no solution, MODEL_INVALID when a domain is empty.
returnedStatuses ==
    IF solution_count > 0 THEN {"OPTIMAL", "FEASIBLE"}
    ELSE IF emptyDomain THEN {"MODEL_INVALID"}
    ELSE IF modelFeasible THEN {"UNKNOWN"}
    ELSE {"INFEASIBLE", "UNKNOWN"}

\* The call of the solver returns; its values are those of the last incumbent.
SearchReturns ==
    /\ pc = "solving"
    /\ pc' = "returned"
    /\ status' \in returnedStatuses
    /\ UNCHANGED << inst, checkVars, posted, entityVars, modelVars, solutionVars, params, printed >>

\* Lines 260-272: the last solution is printed if PRINT_BEST is set and the
\* status is OPTIMAL or FEASIBLE; the other statuses are logged.
PrintBest ==
    /\ pc = "returned"
    /\ pc' = "reported"
    /\ printed' = IF params.print_solutions = PRINT_BEST /\ status \in {"OPTIMAL", "FEASIBLE"}
                  THEN printed + 1
                  ELSE printed
    /\ UNCHANGED << inst, checkVars, posted, entityVars, modelVars, solutionVars, params, status >>

\* Every status gets the Solution, whether or not export is set.
ExportTimetableAlways ==
    /\ pc = "reported"
    /\ pc' = "done"
    /\ timeslotMap' = IF status \in {"OPTIMAL", "FEASIBLE"}
                      THEN buildSolution(emptyTimeslotMap, timeVars, roomVar, 1, Len(scenario.lessons))
                      ELSE timeslotMap
    /\ UNCHANGED << inst, checkVars, posted, entityVars, modelVars, timeVars, roomVar, studyDayBoolVars,
                    isValid, solution_count, invalidCount, searchVars >>

\* Lines 318-334: if EXPORT_TIMETABLE is set and the status is OPTIMAL or
\* FEASIBLE, the Solution is built from the solver's values and written.
ExportTimetable ==
    /\ pc = "reported"
    /\ pc' = "done"
    /\ timeslotMap' = IF params.export /\ status \in {"OPTIMAL", "FEASIBLE"}
                      THEN buildSolution(emptyTimeslotMap, timeVars, roomVar, 1, Len(scenario.lessons))
                      ELSE timeslotMap
    /\ UNCHANGED << inst, checkVars, posted, entityVars, modelVars, timeVars, roomVar, studyDayBoolVars,
                    isValid, solution_count, invalidCount, searchVars >>

NextSearch ==
    \/ CreateVariables
    \/ AddTimeConflictConstraints
    \/ AddMaxPerDayConstraints
    \/ AddMaxLecturesAsBlockTeacherConstraints
    \/ AddMaxLecturesPerDayTeacherConstraints
    \/ AddOtherConstraints
    \/ SolveWithSolutionCallback
    \/ PrinterOnSolutionCallback
    \/ SearchReturns
    \/ PrintBest
    \/ ExportTimetable

\* The statements of main, without the callbacks of the solver.
mainStatements ==
    \/ CreateVariables
    \/ AddTimeConflictConstraints
    \/ AddMaxPerDayConstraints
    \/ AddMaxLecturesAsBlockTeacherConstraints
    \/ AddMaxLecturesPerDayTeacherConstraints
    \/ AddOtherConstraints
    \/ SolveWithSolutionCallback
    \/ SearchReturns
    \/ PrintBest
    \/ ExportTimetable

\* main runs its statements one after the other, and the time limit of line
\* 224 ends every search.
SpecSearch == InitSearch /\ [][NextSearch]_vars /\ WF_vars(mainStatements)

(***************************************************************************)
(* Properties of the solutions the built model admits.                     *)
(***************************************************************************)
\* The callback has built a Solution from a reported assignment.
solutionBuilt == solution_count > 0

\* The timeslots at which the Solution holds a tuple of the lesson.
slotsOfLesson(l) == {t \in Timeslots : l \in lessonsAt(timeslotMap, t)}

\* The lesson belongs to a same-time group.
inSameTimeGroup(l) == scenario.lessons[l].lessons_at_same_time # {}

\* The part-cohort lessons of the semester group that the Solution holds at
\* the timeslot.
partLessonsAt(sg, t) ==
    {l \in lessonsAt(timeslotMap, t) :
        /\ sg \in scenario.courses[scenario.lessons[l].course].semester_groups
        /\ ~scenario.lessons[l].whole_semester_group}

\* Three or more part-cohort lessons of pairwise different courses of one
\* semester group occupy one timeslot.
threeParallelCourses ==
    \E sg \in SemesterGroups(scenario), t \in Timeslots :
        /\ Cardinality(partLessonsAt(sg, t)) >= 3
        /\ \A l1 \in partLessonsAt(sg, t), l2 \in partLessonsAt(sg, t) :
                l1 # l2 => scenario.lessons[l1].course # scenario.lessons[l2].course

\* C1 (RoundTrip): the Solution built from every assignment that satisfies
\* all posted hard constraints is accepted by validateSolution, in particular
\* when three or more part-cohort lessons of pairwise different courses of
\* one semester group occupy the same timeslot.
C1_RoundTrip == solutionBuilt => isValid = "valid"

\* C2: in every solution the timeslots of every lesson L are exactly
\* L.timeslot_size timeslots with consecutive ids that all lie on one weekday,
\* also for the members of a same-time group whose members differ in size.
C2_LessonSlotsConsecutiveOnOneDay ==
    solutionBuilt =>
        \A l \in Lessons(scenario) :
            LET timeslots == getTimeslotsOfLesson(timeslotMap, l)
            IN  /\ Len(timeslots) = timeslot_size(scenario, l)
                /\ \A i \in 1 .. Len(timeslots) - 1 : timeslots[i + 1] = timeslots[i] + 1
                /\ \A i \in 1 .. Len(timeslots) :
                        weekday_number(timeslots[i]) = weekday_number(timeslots[1])

\* A same-time group with members of different sizes whose longest member
\* ends in the last hour of a day.
C2_Witness ==
    /\ solutionBuilt
    /\ \E l \in Lessons(scenario) : \E m \in scenario.lessons[l].lessons_at_same_time :
            /\ timeslot_size(scenario, l) < timeslot_size(scenario, m)
            /\ \E t \in slotsOfLesson(m) : number(t) = TIMESLOTS_PER_DAY

\* The lessons of the teacher that the Solution holds at the timeslot.
teacherLessonsAt(teacher, t) == teacherLessons(scenario, teacher) \cap lessonsAt(timeslotMap, t)

\* C3: in every solution, for every teacher and timeslot, at most one lesson
\* of the teacher occupies the timeslot, unless all lessons of the teacher
\* occupying it belong to the same same-time group.
C3_TeacherOneLessonPerTimeslot ==
    solutionBuilt =>
        \A teacher \in Teachers(scenario), t \in Timeslots :
            \/ Cardinality(teacherLessonsAt(teacher, t)) <= 1
            \/ \A l1 \in teacherLessonsAt(teacher, t), l2 \in teacherLessonsAt(teacher, t) :
                    l2 \in lessonsSameTime(scenario, l1)

\* A teacher gives two lessons of a same-time group in one timeslot and a
\* lesson outside the group in timeslots of its own.
C3_Witness ==
    /\ solutionBuilt
    /\ \E teacher \in Teachers(scenario), t \in Timeslots :
            /\ Cardinality(teacherLessonsAt(teacher, t)) = 2
            /\ \E m \in teacherLessons(scenario, teacher) :
                    /\ ~inSameTimeGroup(m)
                    /\ slotsOfLesson(m) # {}
                    /\ \A u \in slotsOfLesson(m) : Cardinality(teacherLessonsAt(teacher, u)) = 1

\* The lessons of the semester group that the Solution holds at the timeslot.
cohortLessonsAt(sg, t) ==
    {l \in lessonsAt(timeslotMap, t) :
        sg \in scenario.courses[scenario.lessons[l].course].semester_groups}

wholeLessonsAt(sg, t) == {l \in cohortLessonsAt(sg, t) : scenario.lessons[l].whole_semester_group}

\* (a) of C4 as stated: at most one whole-cohort lesson occupies the timeslot.
atMostOneWholeLesson(sg, t) == Cardinality(wholeLessonsAt(sg, t)) <= 1

\* (b) of C4 as stated: all lessons at the timeslot are part-cohort lessons
\* and no two of them belong to one course unless they are in a same-time
\* group.
allPartNoCourseTwice(sg, t) ==
    /\ wholeLessonsAt(sg, t) = {}
    /\ \A l1 \in cohortLessonsAt(sg, t), l2 \in cohortLessonsAt(sg, t) :
            (l1 # l2 /\ scenario.lessons[l1].course = scenario.lessons[l2].course)
                => l2 \in scenario.lessons[l1].lessons_at_same_time

\* All lessons of the semester group at the timeslot are one lesson or the
\* members of one same-time group.
oneSameTimeGroup(sg, t) ==
    \A l1 \in cohortLessonsAt(sg, t), l2 \in cohortLessonsAt(sg, t) :
        l2 \in lessonsSameTime(scenario, l1)

\* All lessons at the timeslot are part-cohort lessons, and they are all of
\* one course or of pairwise different courses and of timeslot_size 1.
allPartOneCourseOrOnePerCourse(sg, t) ==
    /\ wholeLessonsAt(sg, t) = {}
    /\ \/ Cardinality({scenario.lessons[l].course : l \in cohortLessonsAt(sg, t)}) <= 1
       \/ \A l1 \in cohortLessonsAt(sg, t) :
            /\ timeslot_size(scenario, l1) = 1
            /\ \A l2 \in cohortLessonsAt(sg, t) :
                    l1 # l2 => scenario.lessons[l1].course # scenario.lessons[l2].course

\* C4 as stated: for every semester group and timeslot, either (a) at most
\* one whole-cohort lesson of the group occupies the timeslot, or (b) all
\* lessons of the group there are part-cohort lessons no two of which belong
\* to one course unless they are in a same-time group.
C4_AsStated ==
    solutionBuilt =>
        \A sg \in SemesterGroups(scenario), t \in Timeslots :
            atMostOneWholeLesson(sg, t) \/ allPartNoCourseTwice(sg, t)

\* C4, amended: for every semester group and timeslot, either (a) a
\* whole-cohort lesson of the group occupies the timeslot and all lessons of
\* the group there are that one lesson or the members of one same-time group,
\* or (b) all lessons of the group there are part-cohort lessons, which are
\* all of one course or of pairwise different courses and of timeslot_size 1.
C4_SemesterGroupTimeslot ==
    solutionBuilt =>
        \A sg \in SemesterGroups(scenario), t \in Timeslots :
            \/ wholeLessonsAt(sg, t) # {} /\ oneSameTimeGroup(sg, t)
            \/ allPartOneCourseOrOnePerCourse(sg, t)

\* Two whole-cohort lessons of one semester group, members of a same-time
\* group, occupy one timeslot.
C4_Witness ==
    /\ solutionBuilt
    /\ \E sg \in SemesterGroups(scenario), t \in Timeslots :
            Cardinality(wholeLessonsAt(sg, t)) = 2

\* The lessons outside any same-time group that the Solution holds at the
\* timeslot in the room.
freeLessonsIn(r, t) ==
    {timeslotMap[t][i][LESSON_IDX] :
        i \in {k \in 1 .. Len(timeslotMap[t]) :
                    /\ timeslotMap[t][k][ROOM_IDX] = r
                    /\ ~inSameTimeGroup(timeslotMap[t][k][LESSON_IDX])}}

\* C5: in every solution, for every room and timeslot, at most one lesson
\* that is in no same-time group is assigned the room and occupies the
\* timeslot, for lesson pairs of every size combination.
C5_RoomOneLessonPerTimeslot ==
    solutionBuilt =>
        \A r \in DOMAIN scenario.rooms, t \in Timeslots : Cardinality(freeLessonsIn(r, t)) <= 1

\* Lessons assigned different rooms share timeslots: two lessons of size 2
\* whose courses can use the same rooms lie in the same two timeslots, and
\* two lessons of size 1 share another timeslot.
C5_Witness ==
    /\ solutionBuilt
    /\ \E p \in noOverlapPairs(scenario) :
            /\ slotsOfLesson(p[1]) = slotsOfLesson(p[2])
            /\ roomVar[p[1]] # roomVar[p[2]]
    /\ \E l1 \in Lessons(scenario), l2 \in Lessons(scenario) :
            /\ l1 # l2
            /\ timeslot_size(scenario, l1) = 1
            /\ timeslot_size(scenario, l2) = 1
            /\ slotsOfLesson(l1) = slotsOfLesson(l2)
            /\ roomVar[l1] # roomVar[l2]

\* The timeslots at which the Solution holds a lesson of the course.
slotsOfCourse(c) == UNION {slotsOfLesson(l) : l \in courseLessons(scenario, c)}

\* The lessons of the course lie in blocksize pairwise distinct timeslots that
\* form one contiguous run on a single weekday, the run starts in an hour in
\* 1 .. TIMESLOTS_PER_DAY + 1 - blocksize, and all lessons have the same room.
inOneBlock(c) ==
    LET first == Min(slotsOfCourse(c))
    IN  /\ Cardinality(slotsOfCourse(c)) = blocksize(scenario, c)
        /\ slotsOfCourse(c) = first .. (first + blocksize(scenario, c) - 1)
        /\ \A t \in slotsOfCourse(c) : weekday_number(t) = weekday_number(first)
        /\ number(first) \in 1 .. (TIMESLOTS_PER_DAY + 1 - blocksize(scenario, c))
        /\ \A l1 \in courseLessons(scenario, c), l2 \in courseLessons(scenario, c) :
                roomVar[l1] = roomVar[l2]

blockCourses == {c \in Courses(scenario) : scenario.courses[c].all_in_one_block /\ blocksize(scenario, c) > 1}

\* C6: in every solution, the lessons of every all_in_one_block course with
\* total block size B > 1 occupy B pairwise distinct timeslots that form one
\* contiguous run on a single weekday, starting in an hour in
\* 1 .. TIMESLOTS_PER_DAY + 1 - B, and all lessons of the course have the same
\* room.
C6_AllInOneBlock == solutionBuilt => \A c \in blockCourses : inOneBlock(c)

\* The pairs (L, L') with L' in L.lessons_consecutive.
consecutivePairs ==
    {p \in Lessons(scenario) \X Lessons(scenario) : p[2] \in scenario.lessons[p[1]].lessons_consecutive}

\* C7: in every solution, for every pair (L, L') with L' in
\* L.lessons_consecutive, the first timeslot of L' is the last timeslot of L
\* plus one and both lessons are on the same weekday.
C7_ConsecutiveLessons ==
    solutionBuilt =>
        \A p \in consecutivePairs :
            /\ Min(slotsOfLesson(p[2])) = Max(slotsOfLesson(p[1])) + 1
            /\ \A t1 \in slotsOfLesson(p[1]), t2 \in slotsOfLesson(p[2]) :
                    weekday_number(t1) = weekday_number(t2)

\* A lesson of size 2 ends in the hour before the last hour of a day and the
\* lesson that has to follow it lies in the last hour.
C7_Witness ==
    /\ solutionBuilt
    /\ \E p \in consecutivePairs :
            /\ Cardinality(slotsOfLesson(p[1])) = 2
            /\ number(Max(slotsOfLesson(p[1]))) = TIMESLOTS_PER_DAY - 1
            /\ number(Min(slotsOfLesson(p[2]))) = TIMESLOTS_PER_DAY

\* The teachers with both study days set and at least one lesson.
studyDayTeachers ==
    {teacher \in Teachers(scenario) :
        hasStudyday(scenario.teachers[teacher]) /\ teacherLessons(scenario, teacher) # {}}

\* The Solution holds no lesson of the teacher on the weekday.
dayWithoutLessons(teacher, d) == \A t \in getTimeslotsPerDay[d] : teacherLessonsAt(teacher, t) = {}

\* C8: in every solution, for every teacher that has both study days set and
\* at least one lesson, at least one of the two study days contains none of
\* the teacher's lessons; when the two days coincide only one boolean is
\* created and that day contains none of the teacher's lessons.
C8_StudyDays ==
    solutionBuilt =>
        \A teacher \in studyDayTeachers :
            LET studyDay1ID == getWeekdayID(scenario.teachers[teacher].study_day_1)
                studyDay2ID == getWeekdayID(scenario.teachers[teacher].study_day_2)
            IN  /\ dayWithoutLessons(teacher, studyDay1ID) \/ dayWithoutLessons(teacher, studyDay2ID)
                /\ studyDay1ID = studyDay2ID =>
                        /\ Len(studyDayBoolVars[teacher]) = 1
                        /\ dayWithoutLessons(teacher, studyDay1ID)

\* A teacher with two different study days gives lessons on the second one
\* and none on the first.
C8_Witness ==
    /\ solutionBuilt
    /\ \E teacher \in studyDayTeachers :
            LET studyDay1ID == getWeekdayID(scenario.teachers[teacher].study_day_1)
                studyDay2ID == getWeekdayID(scenario.teachers[teacher].study_day_2)
            IN  /\ studyDay1ID # studyDay2ID
                /\ dayWithoutLessons(teacher, studyDay1ID)
                /\ ~dayWithoutLessons(teacher, studyDay2ID)
                /\ Len(studyDayBoolVars[teacher]) = 2

\* The Solution holds a lecture of the teacher at the timeslot.
lectureAt(teacher, t) ==
    \E l \in teacherLessonsAt(teacher, t) : scenario.courses[scenario.lessons[l].course].is_lecture

\* The hours of the weekday at which the teacher gives a lecture.
lectureHours(teacher, d) ==
    {n \in 1 .. TIMESLOTS_PER_DAY : lectureAt(teacher, (d - 1) * TIMESLOTS_PER_DAY + n)}

\* The hours contain a run of size consecutive hours.
hasBlock(hours, size) ==
    \E first \in 1 .. (TIMESLOTS_PER_DAY - size + 1) : \A n \in first .. (first + size - 1) : n \in hours

\* C9: in every solution, for every teacher and every weekday, the hours the
\* teacher gives lectures at contain no run of consecutive hours longer than
\* the max_lectures_as_block the teacher was loaded with and are at most the
\* loaded max_lectures_per_day many, for both parameters in 1..6.
C9_LecturePattern ==
    solutionBuilt =>
        \A teacher \in Teachers(scenario), d \in 1 .. WEEKDAYS :
            /\ ~hasBlock(lectureHours(teacher, d), inst.max_lectures_as_block + 1)
            /\ Cardinality(lectureHours(teacher, d)) <= inst.max_lectures_per_day

\* A teacher loaded with (4, 3) gives four lectures on one day, three of
\* them in consecutive hours.
C9_Witness ==
    /\ solutionBuilt
    /\ inst.max_lectures_per_day = 4
    /\ inst.max_lectures_as_block = 3
    /\ \E teacher \in Teachers(scenario), d \in 1 .. WEEKDAYS :
            /\ hasBlock(lectureHours(teacher, d), 3)
            /\ Cardinality(lectureHours(teacher, d)) = 4

\* The Solution holds the lesson on the weekday.
lessonOnDay(l, d) == slotsOfLesson(l) # {} /\ slotsOfLesson(l) \subseteq getTimeslotsPerDay[d]

\* The teacher's lessons of every same-time group that holds one.
teacherSameTimeGroups(teacher) ==
    {lessonsSameTime(scenario, l) \cap teacherLessons(scenario, teacher) :
        l \in {m \in teacherLessons(scenario, teacher) : inSameTimeGroup(m)}}

\* The sum of timeslot_size over the counted lessons of the teacher that the
\* Solution holds on the weekday: the lessons in no same-time group and, per
\* same-time group, the longest lesson of the teacher.
countedSizeOnDay(teacher, d) ==
    LET single == {l \in teacherLessons(scenario, teacher) : ~inSameTimeGroup(l) /\ lessonOnDay(l, d)}
        groups == {g \in teacherSameTimeGroups(teacher) : \E l \in g : lessonOnDay(l, d)}
    IN  Sum([l \in single |-> timeslot_size(scenario, l)], single)
            + Sum([g \in groups |-> Max({timeslot_size(scenario, l) : l \in g})], groups)

\* The timeslots of the weekday at which the Solution holds a lesson of the teacher.
occupiedOnDay(teacher, d) == {t \in getTimeslotsPerDay[d] : teacherLessonsAt(teacher, t) # {}}

\* C10: in every solution, for every teacher and weekday, the sum of
\* timeslot_size over the counted lessons of the day is at most the teacher's
\* max_lessons_per_day, and so is the number of timeslots of the day the
\* teacher is occupied at.
C10_MaxLessonsPerDayTeacher ==
    solutionBuilt =>
        \A teacher \in Teachers(scenario), d \in 1 .. WEEKDAYS :
            /\ countedSizeOnDay(teacher, d) <= scenario.teachers[teacher].max_lessons_per_day
            /\ Cardinality(occupiedOnDay(teacher, d)) <= scenario.teachers[teacher].max_lessons_per_day

\* A teacher gives two lessons of different size of one same-time group on
\* a day and the longer one alone fills max_lessons_per_day.
C10_Witness ==
    /\ solutionBuilt
    /\ \E teacher \in Teachers(scenario), d \in 1 .. WEEKDAYS :
            /\ \E g \in teacherSameTimeGroups(teacher) :
                    /\ \A l \in g : lessonOnDay(l, d)
                    /\ \E l1 \in g, l2 \in g : timeslot_size(scenario, l1) < timeslot_size(scenario, l2)
            /\ countedSizeOnDay(teacher, d) = scenario.teachers[teacher].max_lessons_per_day
            /\ Cardinality(occupiedOnDay(teacher, d)) = scenario.teachers[teacher].max_lessons_per_day

\* The lessons of the cohort in the same-time group of the lesson.
cohortSiblings(sg, l) == lessonsSameTime(scenario, l) \cap getLessons(scenario, sg)

\* A whole-cohort lesson of the cohort that is counted: it is in no same-time
\* group, or it is strictly longer than every part-cohort sibling of its
\* group in the cohort and is the counted one among the whole-cohort siblings
\* of the greatest size.
countedWholeLessons(sg) ==
    {l \in getLessons(scenario, sg) :
        /\ scenario.lessons[l].whole_semester_group
        /\ inSameTimeGroup(l) =>
            /\ \A m \in cohortSiblings(sg, l) :
                    IF scenario.lessons[m].whole_semester_group
                    THEN timeslot_size(scenario, m) <= timeslot_size(scenario, l)
                    ELSE timeslot_size(scenario, m) < timeslot_size(scenario, l)
            /\ l = Min({m \in cohortSiblings(sg, l) :
                            /\ scenario.lessons[m].whole_semester_group
                            /\ timeslot_size(scenario, m) = timeslot_size(scenario, l)})}

\* The courses of the cohort that have part-cohort lessons.
partCohortCourses(sg) ==
    {c \in Courses(scenario) :
        /\ sg \in scenario.courses[c].semester_groups
        /\ \E l \in courseLessons(scenario, c) : ~scenario.lessons[l].whole_semester_group}

\* The size a course with part-cohort lessons adds to the weekday.
partCourseSizeOnDay(c, d) ==
    LET partLessons == {l \in courseLessons(scenario, c) : ~scenario.lessons[l].whole_semester_group}
    IN  IF \E l \in partLessons : lessonOnDay(l, d)
        THEN timeslot_size(scenario, Min(partLessons))
        ELSE 0

cohortSizeOnDay(sg, d) ==
    LET whole == {l \in countedWholeLessons(sg) : lessonOnDay(l, d)}
    IN  Sum([l \in whole |-> timeslot_size(scenario, l)], whole)
            + Sum([c \in partCohortCourses(sg) |-> partCourseSizeOnDay(c, d)], partCohortCourses(sg))

\* C11: in every solution, for every cohort and weekday, the sizes of the
\* counted whole-cohort lessons of the day plus, per course of the cohort
\* with part-cohort lessons, the size of these lessons if one of them is on
\* the day, is at most the cohort's max_lessons_per_day; a whole-cohort
\* member of a same-time group is counted only if it is strictly longer
\* than every part-cohort sibling of the group in the cohort.
C11_MaxLessonsPerDaySemesterGroup ==
    solutionBuilt =>
        \A sg \in SemesterGroups(scenario), d \in 1 .. WEEKDAYS :
            cohortSizeOnDay(sg, d) <= scenario.semester_groups[sg].max_lessons_per_day

\* A counted whole-cohort member of a same-time group and the course of its
\* part-cohort sibling fill the day of a cohort.
C11_Witness ==
    /\ solutionBuilt
    /\ \E sg \in SemesterGroups(scenario), d \in 1 .. WEEKDAYS :
            /\ cohortSizeOnDay(sg, d) = scenario.semester_groups[sg].max_lessons_per_day
            /\ \E l \in countedWholeLessons(sg) :
                    /\ lessonOnDay(l, d)
                    /\ \E m \in cohortSiblings(sg, l) : ~scenario.lessons[m].whole_semester_group

\* The lessons of a course that are whole-cohort and in no same-time group.
wholeSingleLessons(c) ==
    {l \in courseLessons(scenario, c) : scenario.lessons[l].whole_semester_group /\ ~inSameTimeGroup(l)}

\* The weekdays on which the Solution holds one of the lessons.
weekdaysOf(lessons) == {d \in 1 .. WEEKDAYS : \E l \in lessons : lessonOnDay(l, d)}

\* C12: in every solution, for every course that is not all_in_one_block and
\* every weekday, at most one of the course's lessons that are whole-cohort
\* and in no same-time group is on the weekday; the number of weekdays of
\* these lessons equals their number.
C12_OneLessonPerDayPerCourse ==
    solutionBuilt =>
        \A c \in {k \in Courses(scenario) : ~scenario.courses[k].all_in_one_block} :
            /\ \A d \in 1 .. WEEKDAYS :
                    Cardinality({l \in wholeSingleLessons(c) : lessonOnDay(l, d)}) <= 1
            /\ Cardinality(weekdaysOf(wholeSingleLessons(c))) = Cardinality(wholeSingleLessons(c))

\* Two such lessons of one course lie on two weekdays and a part-cohort
\* lesson of the course shares the weekday of one of them.
C12_Witness ==
    /\ solutionBuilt
    /\ \E c \in Courses(scenario) :
            /\ ~scenario.courses[c].all_in_one_block
            /\ Cardinality(wholeSingleLessons(c)) = 2
            /\ Cardinality(weekdaysOf(wholeSingleLessons(c))) = 2
            /\ \E l \in courseLessons(scenario, c) \ wholeSingleLessons(c) :
                    weekdaysOf({l}) \subseteq weekdaysOf(wholeSingleLessons(c))

\* The one_per_day_per_teacher courses of which the teacher gives a lesson.
onePerDayCoursesOf(teacher) ==
    {c \in Courses(scenario) :
        /\ scenario.courses[c].one_per_day_per_teacher
        /\ courseLessons(scenario, c) \cap teacherLessons(scenario, teacher) # {}}

\* C13: in every solution, for every teacher and every two different
\* one_per_day_per_teacher courses, no lesson of the first course given by
\* the teacher is on the weekday of a lesson of the second course given by
\* the teacher, for all such pairs of lessons.
C13_OneCoursePerDayPerTeacher ==
    solutionBuilt =>
        \A teacher \in Teachers(scenario) :
            \A c1 \in onePerDayCoursesOf(teacher), c2 \in onePerDayCoursesOf(teacher) :
                c1 # c2 =>
                    \A l1 \in courseLessons(scenario, c1) \cap teacherLessons(scenario, teacher),
                       l2 \in courseLessons(scenario, c2) \cap teacherLessons(scenario, teacher) :
                        weekdaysOf({l1}) \cap weekdaysOf({l2}) = {}

\* A teacher gives two lessons of an all_in_one_block course and two lessons
\* of another course, both one_per_day_per_teacher, and a lesson of the
\* second course given by someone else is on the weekday of the first course.
C13_Witness ==
    /\ solutionBuilt
    /\ \E teacher \in Teachers(scenario) :
        \E c1 \in onePerDayCoursesOf(teacher), c2 \in onePerDayCoursesOf(teacher) :
            /\ c1 # c2
            /\ scenario.courses[c1].all_in_one_block
            /\ Cardinality(courseLessons(scenario, c1) \cap teacherLessons(scenario, teacher)) = 2
            /\ Cardinality(courseLessons(scenario, c2) \cap teacherLessons(scenario, teacher)) = 2
            /\ \E l \in courseLessons(scenario, c2) \ teacherLessons(scenario, teacher) :
                    weekdaysOf({l}) \subseteq weekdaysOf(courseLessons(scenario, c1))

\* The timeslot is admissible for the lesson.
admissible(l, t) ==
    /\ \A teacher \in scenario.lessons[l].teachers :
            t \notin scenario.teachers[teacher].not_available_timeslots
    /\ scenario.courses[scenario.lessons[l].course].only_forenoon => number(t) \in 1 .. 3
    /\ scenario.lessons[l].available_timeslots # {} => t \in scenario.lessons[l].available_timeslots

\* C14: in every solution, every timeslot a lesson occupies is admissible for
\* the lesson: no teacher of the lesson is unavailable at it, it is a forenoon
\* timeslot if the course is only_forenoon, and it is one of the lesson's
\* available_timeslots if there are any; the start timeslot of a same-time
\* group is admissible for every member of the group.
C14_AdmissibleTimeslots ==
    solutionBuilt =>
        \A l \in Lessons(scenario) :
            /\ \A t \in slotsOfLesson(l) : admissible(l, t)
            /\ \A m \in lessonsSameTime(scenario, l) : admissible(m, Min(slotsOfLesson(l)))

\* A lesson of a teacher with unavailable timeslots lies in the same-time
\* group of a shorter lesson for which the second timeslot is not admissible,
\* and a lesson without available_timeslots lies in the forenoon of a weekday
\* no availability window is open on.
C14_Witness ==
    /\ solutionBuilt
    /\ \E l \in Lessons(scenario) :
            /\ \E teacher \in scenario.lessons[l].teachers :
                    scenario.teachers[teacher].not_available_timeslots # {}
            /\ \E m \in lessonsSameTime(scenario, l), t \in slotsOfLesson(l) : ~admissible(m, t)
    /\ \E l \in Lessons(scenario) :
            /\ scenario.courses[scenario.lessons[l].course].only_forenoon
            /\ scenario.lessons[l].available_timeslots = {}
            /\ \E t \in slotsOfLesson(l) : weekday_number(t) = WEEKDAYS

\* The rooms that have not_available_timeslots.
restrictedRooms == {r \in 1 .. Len(scenario.rooms) : scenario.rooms[r].not_available_timeslots # {}}

\* The lessons whose course can use the room.
lessonsPossibleIn(r) ==
    {l \in Lessons(scenario) : r \in scenario.courses[scenario.lessons[l].course].possible_rooms}

\* C15: in every solution, for every room with not_available_timeslots and
\* every lesson whose course can use the room: if the Solution holds the
\* lesson in the room, none of the lesson's timeslots is one of them, and
\* inRoom is true exactly when the roomVar of the lesson is the room.
C15_RoomNotAvailable ==
    solutionBuilt =>
        \A r \in restrictedRooms : \A l \in lessonsPossibleIn(r) :
            /\ getRoomOfLesson(timeslotMap, l) = r =>
                    slotsOfLesson(l) \cap scenario.rooms[r].not_available_timeslots = {}
            /\ inRoomValues(roomVar, l, r) = {roomVar[l] = r}

\* A lesson of size 2 is held in a room that is not available at the
\* timeslot after the lesson.
C15_Witness ==
    /\ solutionBuilt
    /\ \E r \in restrictedRooms : \E l \in lessonsPossibleIn(r) :
            /\ getRoomOfLesson(timeslotMap, l) = r
            /\ Cardinality(slotsOfLesson(l)) = 2
            /\ \E t \in slotsOfLesson(l) : t + 1 \in scenario.rooms[r].not_available_timeslots

\* The pairs of different lessons of one same-time group.
sameTimePairs ==
    {p \in Lessons(scenario) \X Lessons(scenario) :
        p[1] # p[2] /\ p[2] \in scenario.lessons[p[1]].lessons_at_same_time}

\* C16: in every solution two lessons of one same-time group start at the same
\* timeslot and hold the same i-th timeslot for every i up to the smaller of
\* their sizes, and their weekdayVar, hourNumberVar and weekdayBoolVars have
\* the same values.
C16_SameTimeSharing ==
    solutionBuilt =>
        \A p \in sameTimePairs :
            LET l == p[1]
                m == p[2]
                tl == getTimeslotsOfLesson(timeslotMap, l)
                tm == getTimeslotsOfLesson(timeslotMap, m)
            IN  /\ tl[1] = tm[1]
                /\ \A i \in 1 .. Min({Len(tl), Len(tm)}) : tl[i] = tm[i] /\ timeVars[l][i] = timeVars[m][i]
                /\ weekdayVar(timeVars, l) = weekdayVar(timeVars, m)
                /\ hourNumberVar(timeVars, l) = hourNumberVar(timeVars, m)
                /\ \A d \in 1 .. WEEKDAYS :
                        weekdayBoolVars(timeVars, l, d) = weekdayBoolVars(timeVars, m, d)

\* Two lessons of different sizes of one same-time group lie in a solution,
\* the longer one holding a timeslot the shorter one does not.
C16_Witness ==
    /\ solutionBuilt
    /\ \E p \in sameTimePairs :
            /\ Len(getTimeslotsOfLesson(timeslotMap, p[1])) = 2
            /\ Len(getTimeslotsOfLesson(timeslotMap, p[2])) = 1
            /\ slotsOfLesson(p[2]) # slotsOfLesson(p[1])
            /\ slotsOfLesson(p[2]) \subseteq slotsOfLesson(p[1])

(***************************************************************************)
(* Properties of validateSolution on the Solutions of SpecValidation.      *)
(***************************************************************************)
\* validateSolution has been applied to the Solution.
validated == pc \in {"validated", "raised"}

\* C17: validateSolution ends every call with a Boolean: whatever rule the
\* Solution breaks, the one lesson per day per course rule included, the call
\* does not end with an exception, and a broken rule makes the result False.
C17_ValidatorAccumulates ==
    validated =>
        /\ isValid \in {"valid", "invalid"}
        /\ ~validateOnlyOneNotAllInOneBlockLessonPerDay(scenario, timeslotMap) => isValid = "invalid"

\* The teacher gives lectures in a run of consecutive hours of a weekday that
\* is longer than the teacher's max_lectures_as_block.
lectureRunTooLong(teacher) ==
    \E d \in 1 .. WEEKDAYS : hasBlock(lectureHours(teacher, d), max_lectures_as_block[teacher] + 1)

\* The teacher gives lectures at more hours of a weekday than the teacher's
\* max_lectures_per_day.
lecturesTooMany(teacher) ==
    \E d \in 1 .. WEEKDAYS : Cardinality(lectureHours(teacher, d)) > max_lectures_per_day[teacher]

\* C18: validateSolution returns False for every Solution in which a teacher
\* has a run of consecutive lecture timeslots longer than max_lectures_as_block
\* or more lecture timeslots on a day than max_lectures_per_day.
C18_ValidatorLectureCaps ==
    validated =>
        \A teacher \in Teachers(scenario) :
            (lectureRunTooLong(teacher) \/ lecturesTooMany(teacher)) => isValid = "invalid"

(***************************************************************************)
(* Properties of the search of SpecSearch.                                 *)
(***************************************************************************)
FinalStatuses == {"FEASIBLE", "OPTIMAL", "UNKNOWN", "INFEASIBLE", "MODEL_INVALID"}

\* The model is built and the solver has not been called.
modelBuilt == pc = "searching"

solutionFound == status \in {"OPTIMAL", "FEASIBLE"}

\* main has produced a Solution after the search.
solutionProduced == timeslotMap # << >>

\* The solver is only called for the built model, the status is set once, by
\* the return of the solver and to one of the five statuses, and main runs
\* from the built model to its end.
searchOrder ==
    /\ [][/\ (pc' = "solving" /\ pc # "solving") => modelBuilt
          /\ status' # status => (pc = "solving" /\ status = "NONE" /\ status' \in FinalStatuses)]_vars
    /\ [](pc \in {"returned", "reported", "done"} <=> status \in FinalStatuses)
    /\ (modelBuilt ~> (pc = "done"))

\* With UNKNOWN there is no incumbent and none is printed; with INFEASIBLE or
\* MODEL_INVALID no Solution is produced.
noSolutionStatuses ==
    /\ status = "UNKNOWN" => (solution_count = 0 /\ printed = 0 /\ ~solutionProduced)
    /\ status \in {"INFEASIBLE", "MODEL_INVALID"} => (solution_count = 0 /\ printed = 0 /\ ~solutionProduced)

assigned == solution_count > 0 /\ pc \in {"solving", "returned", "reported", "done"}

\* The timetable of the solver's values.
assignment == buildSolution(emptyTimeslotMap, timeVars, roomVar, 1, Len(scenario.lessons))

\* The number of (lesson, timeslot) occupancies at the timeslots with the number.
count_hour(n) ==
    Cardinality({p \in Lessons(scenario) \X {t \in Timeslots : number(t) = n} :
                    p[1] \in lessonsAt(assignment, p[2])})

\* A lesson of the cohort occupies the hour of the weekday.
occupied(sg, d, hour) == lessonsAt(assignment, SlotAt(d, hour)) \cap getLessons(scenario, sg) # {}

\* The gaps of size g of the cohort: g free hours of a day between two
\* occupied hours.
gaps(sg, g) ==
    Cardinality({p \in (1 .. WEEKDAYS) \X (2 .. (TIMESLOTS_PER_DAY - g)) :
                    /\ occupied(sg, p[1], p[2] - 1)
                    /\ \A hour \in p[2] .. (p[2] + g - 1) : ~occupied(sg, p[1], hour)
                    /\ occupied(sg, p[1], p[2] + g)})

\* The weekdays the teacher has a lesson on.
workingDays(teacher) ==
    {d \in 1 .. WEEKDAYS : lessonsOnDay(assignment, d) \cap teacherLessons(scenario, teacher) # {}}

\* The day gaps of size g of the teacher: g free days between two working days.
daygaps(teacher, g) ==
    Cardinality({d \in 2 .. (WEEKDAYS - g) :
                    /\ d - 1 \in workingDays(teacher)
                    /\ \A k \in d .. (d + g - 1) : k \notin workingDays(teacher)
                    /\ d + g \in workingDays(teacher)})

hourTerms == 2 * count_hour(1) + 3 * count_hour(5) + 5 * count_hour(6)

gapTerms ==
    Sum([sg \in SemesterGroups(scenario) |->
            3 * gaps(sg, 1) + 4 * gaps(sg, 2) + 4 * gaps(sg, 3) + 3 * gaps(sg, 4)],
        SemesterGroups(scenario))

dayGapTerms ==
    LET teachers == {t \in Teachers(scenario) :
                        /\ scenario.teachers[t].avoid_free_day_gaps
                        /\ Cardinality(teacherLessons(scenario, t)) >= 2}
    IN  Sum([t \in teachers |-> 18 * daygaps(t, 1) + 30 * daygaps(t, 2) + 18 * daygaps(t, 3)], teachers)

studyDayTerms ==
    30 * Cardinality({t \in Teachers(scenario) :
                        /\ hasStudyday(scenario.teachers[t])
                        /\ teacherLessons(scenario, t) # {}
                        /\ ~studyDay1BoolVar(studyDayBoolVars, t)})

freeDayTerms ==
    LET groups == {sg \in SemesterGroups(scenario) : scenario.semester_groups[sg].free_day # "None"}
    IN  Sum([sg \in groups |->
                9 * Cardinality(getLessons(scenario, sg)
                                \cap lessonsOnDay(assignment, getWeekdayID(scenario.semester_groups[sg].free_day)))],
            groups)

\* C20: for every assignment the solver reports, the objective value is
\* 2, 3 and 5 times the occupancies of hours 1, 5 and 6, plus 3, 4, 4 and 3
\* times the gaps of sizes 1 to 4 of every cohort, plus 18, 30 and 18 times
\* the day gaps of sizes 1 to 3 of every teacher with avoid_free_day_gaps and
\* at least two lessons, plus 30 for every teacher with study days and
\* lessons whose studyDay1BoolVar is false, plus 9 times the lessons on the
\* free day of every cohort that has one, and nothing else.
C20_ObjectiveValue ==
    assigned => ObjectiveValue = hourTerms + gapTerms + dayGapTerms + studyDayTerms + freeDayTerms

\* An assignment in which a lesson of size 2 occupies hours 5 and 6 and
\* every group of terms contributes to the objective value.
C20_Witness ==
    /\ assigned
    /\ count_hour(5) > 0 /\ count_hour(6) > 0 /\ count_hour(1) > 0
    /\ \E l \in Lessons(scenario) : Len(timeVars[l]) = 2 /\ number(timeVars[l][1]) = 5
    /\ gapTerms > 0
    /\ dayGapTerms > 0
    /\ studyDayTerms > 0
    /\ freeDayTerms > 0

(***************************************************************************)
(* The input attributes of the entities during the build.                  *)
(***************************************************************************)
\* The variable factories and constraint functions of main have all run.
buildFinished == "addOneCoursePerDayPerTeacherConstraints" \in posted

\* The two lecture parameters of every teacher hold the loaded values.
lectureParametersAsLoaded ==
    \A t \in Teachers(scenario) :
        /\ max_lectures_per_day[t] = inst.max_lectures_per_day
        /\ max_lectures_as_block[t] = inst.max_lectures_as_block

\* C21 as stated: after the build every input attribute of every entity, in
\* particular max_lectures_per_day and max_lectures_as_block of every
\* teacher, has the value it had before the build.
C21_NoEntityMutation == buildFinished => lectureParametersAsLoaded

\* C21, amended: no step of the build changes an input attribute of an
\* entity, except that addMaxLecturesAsBlockTeacherConstraints may lower (and
\* never raises) max_lectures_per_day and max_lectures_as_block of a teacher
\* in place.
C21_OnlyLectureParametersLowered ==
    [][/\ inst' = inst
       /\ entityVars' # entityVars =>
            /\ "addMaxLecturesAsBlockTeacherConstraints" \in posted' \ posted
            /\ \A t \in Teachers(scenario) :
                    /\ max_lectures_per_day'[t] <= max_lectures_per_day[t]
                    /\ max_lectures_as_block'[t] <= max_lectures_as_block[t]
                    /\ max_lectures_per_day'[t] >= 1
                    /\ max_lectures_as_block'[t] >= 1]_vars

\* The build has finished for a teacher loaded with (6, 1), who now holds
\* max_lectures_per_day 3.
C21_Witness ==
    /\ buildFinished
    /\ inst.max_lectures_per_day = 6 /\ inst.max_lectures_as_block = 1
    /\ \E t \in Teachers(scenario) : max_lectures_per_day[t] = 3 /\ max_lectures_as_block[t] = 1

(***************************************************************************)
(* The plausibility checks of the data, which main runs before the model   *)
(* is built when DEBUG is set.  A logger.error call formats its message    *)
(* with the % operator, which raises a TypeError unless the format string  *)
(* has as many conversion specifiers as the tuple has arguments.           *)
(***************************************************************************)
\* One check: the condition under which it logs, and the conversion
\* specifiers and arguments of its message.
NewCheck(name, failed, specifiers, arguments) ==
    [name |-> name, failed |-> failed, specifiers |-> specifiers, arguments |-> arguments]

\* The checks run in order; a failed check formats and logs its message and
\* sets plausible to False.
runChecks(checks) ==
    LET typeErrors == {i \in DOMAIN checks : checks[i].failed /\ checks[i].specifiers # checks[i].arguments}
        last == IF typeErrors = {} THEN Len(checks) ELSE Min(typeErrors) - 1
        failed == {i \in 1 .. last : checks[i].failed}
    IN  [raised |-> typeErrors # {}, plausible |-> failed = {}, logged |-> {checks[i].name : i \in failed}]

\* max() and min() of an empty sequence raise a ValueError.
valueError == [raised |-> TRUE, plausible |-> TRUE, logged |-> {}]

\* Course.getTeachers.
getTeachers(sc, c) == UNION {sc.lessons[l].teachers : l \in courseLessons(sc, c)}

coursePlausibilityCheck(sc, c) ==
    LET course == sc.courses[c]
        maxLessonsOfAll ==
            {sc.teachers[t].max_lessons_per_day : t \in getTeachers(sc, c)}
                \cup {sc.semester_groups[sg].max_lessons_per_day : sg \in course.semester_groups}
        sizes == {timeslot_size(sc, l) : l \in courseLessons(sc, c)}
    IN  IF maxLessonsOfAll = {} \/ sizes = {} THEN valueError
        ELSE
            LET maxLessonPerDay == Min(maxLessonsOfAll)
                maxTimeWindow ==
                    Min({maxLessonPerDay,
                         IF course.only_forenoon THEN Cardinality(getForenoonTimeslotNumbers)
                         ELSE TIMESLOTS_PER_DAY})
                totalLength ==
                    Sum([l \in courseLessons(sc, c) |-> timeslot_size(sc, l)], courseLessons(sc, c))
            IN  runChecks(<< NewCheck("to long Lesson", Max(sizes) > maxTimeWindow, 3, 4),
                             NewCheck("all_in_one_block length",
                                      course.all_in_one_block /\ totalLength > maxTimeWindow, 4, 4) >>)

teacherPlausibilityCheck(sc, t, lecturesPerDay, lecturesAsBlock) ==
    LET teacher == sc.teachers[t]
        lessons == teacherLessons(sc, t)
        lectureSize(l) == IF sc.courses[sc.lessons[l].course].is_lecture THEN timeslot_size(sc, l) ELSE 0
        lessonHours == Sum([l \in lessons |-> timeslot_size(sc, l)], lessons)
        hoursAvailable ==
            Cardinality(Timeslots) - Cardinality(teacher.not_available_timeslots)
                - (IF hasStudyday(teacher) THEN TIMESLOTS_PER_DAY ELSE 0)
        lectureHoursPerWeek == Sum([l \in lessons |-> lectureSize(l)], lessons)
        onePerDayCourses == Cardinality(one_per_day_courses(sc, t))
        days == IF hasStudyday(teacher) THEN WEEKDAYS - 1 ELSE WEEKDAYS
    IN  IF lessons = {} THEN valueError
        ELSE
            LET maxTimeslotSize == Max({timeslot_size(sc, l) : l \in lessons})
                maxLectureTimeslotSize == Max({lectureSize(l) : l \in lessons})
            IN  runChecks(<< NewCheck("more lesson Timeslots than available", lessonHours > hoursAvailable, 4, 4),
                             NewCheck("lecture longer than max lectures as block",
                                      maxLectureTimeslotSize > lecturesAsBlock, 4, 4),
                             NewCheck("to much lessonHours",
                                      lessonHours > days * teacher.max_lessons_per_day, 4, 4),
                             NewCheck("to much lectureHours", lectureHoursPerWeek > days * lecturesPerDay, 4, 4),
                             NewCheck("lesson longer than max lessons per day",
                                      maxTimeslotSize > teacher.max_lessons_per_day, 4, 4),
                             NewCheck("one course per day courses", onePerDayCourses > days, 3, 3) >>)

\* The data the checks are run on: a lecture course with two lessons of one
\* teacher, a second course with one lesson of a teacher with study days who
\* is either always available or only in one timeslot, and possibly a third
\* teacher who gives no lesson.
CheckedData(size1, size2, block, forenoon, maxLessons, busy, idle) ==
    [lessons |-> << NewLesson(1, size1, TRUE, {1}, Timeslots, {}, {}),
                    NewLesson(1, size2, TRUE, {1}, Timeslots, {}, {}),
                    NewLesson(2, 1, TRUE, {2}, Timeslots, {}, {}) >>,
     courses |-> << [NewCourse({1}, {1}, block, TRUE) EXCEPT !.only_forenoon = forenoon],
                    NewCourse({1}, {1}, FALSE, FALSE) >>,
     teachers |-> << NewTeacher("None", "None", maxLessons),
                     [NewTeacher("MO", "TU", 5) EXCEPT
                        !.not_available_timeslots = IF busy THEN Timeslots \ {SlotAt(3, 1)} ELSE {}] >>
                  \o (IF idle THEN << NewTeacher("None", "None", 5) >> ELSE << >>),
     semester_groups |-> << NewSemesterGroup(6) >>,
     rooms |-> FreeRooms(1),
     sweep |-> {<<3, 2>>, <<1, 1>>}]

MaxLessonSize == 3

CheckedDataSets ==
    {CheckedData(size1, size2, block, forenoon, maxLessons, busy, idle) :
        size1 \in 1 .. MaxLessonSize, size2 \in 1 .. MaxLessonSize, block \in BOOLEAN,
        forenoon \in BOOLEAN, maxLessons \in {1, 3, 6}, busy \in BOOLEAN, idle \in BOOLEAN}

checkedData == inst.entities

InitPlausibility ==
    /\ \E data \in CheckedDataSets : \E pb \in data.sweep : \E debug \in BOOLEAN :
            inst = [graph |-> 0, entities |-> data, DEBUG |-> debug,
                    max_lectures_per_day |-> pb[1], max_lectures_as_block |-> pb[2]]
    /\ pc = "loaded"
    /\ posted = {}
    /\ max_lectures_per_day = [t \in Teachers(checkedData) |-> inst.max_lectures_per_day]
    /\ max_lectures_as_block = [t \in Teachers(checkedData) |-> inst.max_lectures_as_block]
    /\ forbidden_assignments = [t \in Teachers(checkedData) |-> {}]
    /\ maxLecturesPosted = [t \in Teachers(checkedData) |-> 0]
    /\ timeVars = << >>
    /\ roomVar = << >>
    /\ studyDayBoolVars = << >>
    /\ timeslotMap = << >>
    /\ isValid = "none"
    /\ solution_count = 0
    /\ invalidCount = 0
    /\ params = validatingParams
    /\ status = "NONE"
    /\ printed = 0
    /\ plausible = << >>
    /\ logged = {}

\* One pass of the loop over orm.getTeachers(): teacher.plausibilityCheck.
TeacherPlausibilityCheck ==
    /\ pc = "loaded"
    /\ inst.DEBUG
    /\ LET t == Len(plausible) + 1
           check == teacherPlausibilityCheck(checkedData, t, max_lectures_per_day[t],
                                             max_lectures_as_block[t])
       IN  /\ logged' = logged \cup {<<"Teacher", t, name>> : name \in check.logged}
           /\ plausible' = IF check.raised THEN plausible ELSE Append(plausible, check.plausible)
           /\ pc' = IF check.raised THEN "raised"
                    ELSE IF t = Len(checkedData.teachers) THEN "teachersChecked" ELSE "loaded"
    /\ UNCHANGED << inst, posted, entityVars, modelVars, solutionVars, searchVars >>

\* One pass of the loop over orm.getCourses(): course.plausibilityCheck.
CoursePlausibilityCheck ==
    /\ pc = "teachersChecked"
    /\ LET c == Len(plausible) - Len(checkedData.teachers) + 1
           check == coursePlausibilityCheck(checkedData, c)
       IN  /\ logged' = logged \cup {<<"Course", c, name>> : name \in check.logged}
           /\ plausible' = IF check.raised THEN plausible ELSE Append(plausible, check.plausible)
           /\ pc' = IF check.raised THEN "raised"
                    ELSE IF c = Len(checkedData.courses) THEN "checked" ELSE "teachersChecked"
    /\ UNCHANGED << inst, posted, entityVars, modelVars, solutionVars, searchVars >>

\* Without DEBUG main goes on to the model without any check.
SkipPlausibilityChecks ==
    /\ pc = "loaded"
    /\ ~inst.DEBUG
    /\ pc' = "checked"
    /\ UNCHANGED << inst, posted, entityVars, modelVars, solutionVars, searchVars, checkVars >>

\* model = cp_model.CpModel(): the build of the model starts.
CreateModel ==
    /\ pc = "checked"
    /\ pc' = "model"
    /\ UNCHANGED << inst, posted, entityVars, modelVars, solutionVars, searchVars, checkVars >>

NextPlausibility ==
    \/ TeacherPlausibilityCheck
    \/ CoursePlausibilityCheck
    \/ SkipPlausibilityChecks
    \/ CreateModel

SpecPlausibility == InitPlausibility /\ [][NextPlausibility]_vars /\ WF_vars(NextPlausibility)

\* The entity the i-th returned value belongs to: the teachers come first.
checkedTeachers == {i \in DOMAIN plausible : i <= Len(checkedData.teachers)}

checkedCourses == {i - Len(checkedData.teachers) : i \in DOMAIN plausible \ checkedTeachers}

\* The time window of a course: the smallest max_lessons_per_day of its
\* teachers and cohorts, and the forenoon for an only_forenoon course.
timeWindow(c) ==
    LET lessons == {l \in Lessons(checkedData) : checkedData.lessons[l].course = c}
        caps == {checkedData.teachers[t].max_lessons_per_day :
                    t \in UNION {checkedData.lessons[l].teachers : l \in lessons}}
                \cup {checkedData.semester_groups[sg].max_lessons_per_day :
                        sg \in checkedData.courses[c].semester_groups}
    IN  Min(caps \cup {IF checkedData.courses[c].only_forenoon THEN 3 ELSE 6})

lessonTooLong(c) ==
    \E l \in Lessons(checkedData) :
        checkedData.lessons[l].course = c /\ checkedData.lessons[l].timeslot_size > timeWindow(c)

blockTooLong(c) ==
    LET lessons == {l \in Lessons(checkedData) : checkedData.lessons[l].course = c}
    IN  /\ checkedData.courses[c].all_in_one_block
        /\ Sum([l \in lessons |-> checkedData.lessons[l].timeslot_size], lessons) > timeWindow(c)

weeklyLoadTooHigh(t) ==
    LET lessons == {l \in Lessons(checkedData) : t \in checkedData.lessons[l].teachers}
        teacher == checkedData.teachers[t]
    IN  Sum([l \in lessons |-> checkedData.lessons[l].timeslot_size], lessons)
            > 30 - Cardinality(teacher.not_available_timeslots)
                 - (IF teacher.study_day_1 # "None" /\ teacher.study_day_2 # "None" THEN 6 ELSE 0)

\* C22: the plausibility checks accumulate and log: no call raises, so main
\* is never aborted by a check, and every call made for a course with a
\* lesson longer than its time window or an all_in_one_block total longer
\* than the window, or for a teacher whose weekly load exceeds the available
\* timeslots, has returned False.
C22_PlausibilityChecksAccumulate ==
    /\ pc # "raised"
    /\ \A c \in checkedCourses :
            lessonTooLong(c) \/ blockTooLong(c) => ~plausible[Len(checkedData.teachers) + c]
    /\ \A t \in checkedTeachers : weeklyLoadTooHigh(t) => ~plausible[t]

(***************************************************************************)
(* The Solution as a record of the assignment.                             *)
(***************************************************************************)
\* SolutionValidator.OnSolutionCallback has just built a Solution; the end
\* of the search leaves the Solution as it is.
callbackReturned == solutionBuilt /\ pc # "finished"

\* The tuples of the lesson in the list of a timeslot, by position.
tuplesOf(l, t) == {i \in 1 .. Len(timeslotMap[t]) : timeslotMap[t][i][LESSON_IDX] = l}

\* The timeslots the assignment gives the lesson: timeslot_size timeslots
\* from its start.
occupiedSlots(l) == timeVars[l][1] .. timeVars[l][1] + timeslot_size(scenario, l) - 1

\* C23: in every Solution built from an assignment of the solver, every
\* lesson L has exactly L.timeslot_size tuples in the timeslot map, one at
\* each timeslot it occupies and none elsewhere, all with the room assigned
\* to L; getTimeslotsOfLesson(L) is the sequence of these timeslots in
\* ascending order and getRoomOfLesson(L) is the assigned room.
C23_SolutionHoldsAssignment ==
    callbackReturned =>
        \A l \in Lessons(scenario) :
            /\ Sum([t \in Timeslots |-> Cardinality(tuplesOf(l, t))], Timeslots)
                    = timeslot_size(scenario, l)
            /\ \A t \in Timeslots :
                    Cardinality(tuplesOf(l, t)) = IF t \in occupiedSlots(l) THEN 1 ELSE 0
            /\ \A t \in Timeslots : \A i \in tuplesOf(l, t) : timeslotMap[t][i][ROOM_IDX] = roomVar[l]
            /\ getTimeslotsOfLesson(timeslotMap, l)
                    = [k \in 1 .. timeslot_size(scenario, l) |-> timeVars[l][1] + k - 1]
            /\ getRoomOfLesson(timeslotMap, l) = roomVar[l]

\* A Solution in which a lesson of size 3 shares its second timeslot with a
\* lesson in another room that was added to the list of that timeslot first.
C23_Witness ==
    /\ solutionBuilt
    /\ \E l \in Lessons(scenario), m \in Lessons(scenario) :
            /\ timeslot_size(scenario, l) = 3
            /\ m < l
            /\ roomVar[m] # roomVar[l]
            /\ timeVars[l][1] + 1 \in occupiedSlots(m)
            /\ Len(timeslotMap[timeVars[l][1] + 1]) >= 2

(***************************************************************************)
(* Part-cohort lessons of one cohort in one timeslot.                      *)
(***************************************************************************)
\* The courses with a part-cohort lesson of the semester group at the timeslot.
partCoursesAt(sg, t) == {scenario.lessons[l].course : l \in partLessonsAt(sg, t)}

\* The part-cohort lessons of the semester group, wherever they lie.
partLessonsOf(sg) ==
    {l \in Lessons(scenario) :
        /\ sg \in scenario.courses[scenario.lessons[l].course].semester_groups
        /\ ~scenario.lessons[l].whole_semester_group}

\* C24: in every solution, for every cohort C and timeslot s: if part-cohort
\* lessons of two or more different courses of C occupy s, then every one of
\* these courses has at most one part-cohort lesson at s and no part-cohort
\* lesson of C with timeslot_size > 1 occupies s.
C24_ParallelCourses ==
    callbackReturned =>
        \A sg \in SemesterGroups(scenario), t \in Timeslots :
            Cardinality(partCoursesAt(sg, t)) >= 2 =>
                /\ \A c \in partCoursesAt(sg, t) :
                        Cardinality({l \in partLessonsAt(sg, t) : scenario.lessons[l].course = c}) <= 1
                /\ \A l \in partLessonsAt(sg, t) : timeslot_size(scenario, l) = 1

\* Part-cohort lessons of two courses share a timeslot in a cohort that also
\* has a part-cohort lesson of size 2 and a course with two part-cohort
\* lessons.
C24_Witness ==
    /\ solutionBuilt
    /\ \E sg \in SemesterGroups(scenario) :
            /\ \E t \in Timeslots : Cardinality(partCoursesAt(sg, t)) >= 2
            /\ \E l \in partLessonsOf(sg) : timeslot_size(scenario, l) > 1
            /\ \E l1 \in partLessonsOf(sg), l2 \in partLessonsOf(sg) :
                    l1 # l2 /\ scenario.lessons[l1].course = scenario.lessons[l2].course

\* The part-cohort lessons of the course that the Solution holds at the
\* timeslot for the semester group.
partLessonsOfCourseAt(sg, t, c) == {l \in partLessonsAt(sg, t) : scenario.lessons[l].course = c}

\* C25 as stated: in every solution, for every cohort C and timeslot s: if the
\* part-cohort lessons of C at s all belong to one single course, then at
\* most one part-cohort lesson of that course occupies s.
C25_OneLessonOfSingleCourse ==
    solutionBuilt =>
        \A sg \in SemesterGroups(scenario), t \in Timeslots :
            Cardinality(partCoursesAt(sg, t)) = 1 => Cardinality(partLessonsAt(sg, t)) <= 1

\* C25, amended: in every solution, for every cohort C and timeslot s: a
\* course has two or more part-cohort lessons of C at s, or a part-cohort
\* lesson of size 2 or more at s, only if it is the only course with
\* part-cohort lessons of C at s; the number of its lessons at s is then not
\* limited by this rule.
C25_SeveralLessonsOfSingleCourseOnly ==
    callbackReturned =>
        \A sg \in SemesterGroups(scenario), t \in Timeslots : \A c \in partCoursesAt(sg, t) :
            LET several == Cardinality(partLessonsOfCourseAt(sg, t, c)) >= 2
                long == \E l \in partLessonsOfCourseAt(sg, t, c) : timeslot_size(scenario, l) >= 2
            IN  (several \/ long) => partCoursesAt(sg, t) = {c}

\* Two part-cohort lessons of one course, outside any same-time group, share
\* a timeslot of their cohort, while a part-cohort lesson of another course
\* of the cohort lies elsewhere.
C25_Witness ==
    /\ solutionBuilt
    /\ \E sg \in SemesterGroups(scenario), t \in Timeslots :
            /\ Cardinality(partCoursesAt(sg, t)) = 1
            /\ \E l1 \in partLessonsAt(sg, t), l2 \in partLessonsAt(sg, t) :
                    l1 # l2 /\ ~inSameTimeGroup(l1) /\ ~inSameTimeGroup(l2)
            /\ \E l \in partLessonsOf(sg) : scenario.lessons[l].course \notin partCoursesAt(sg, t)

(***************************************************************************)
(* The reduction of the lecture parameters.                                *)
(***************************************************************************)
\* The block-cap function has reduced the parameters of the teachers.
parametersReduced == "addMaxLecturesAsBlockTeacherConstraints" \in posted

\* The reduction in the words of the rule: max_block is capped by
\* max_per_day, then the steps (6, < 6) -> 5, (5, < 3) -> 4, (4, < 2) -> 3
\* follow one another.
reducedPair(max_per_day, max_block) ==
    LET block == IF max_block > max_per_day THEN max_per_day ELSE max_block
        from6 == IF max_per_day = 6 /\ block < 6 THEN 5 ELSE max_per_day
        from5 == IF from6 = 5 /\ block < 3 THEN 4 ELSE from6
        from4 == IF from5 = 4 /\ block < 2 THEN 3 ELSE from5
    IN  << from4, block >>

\* The pairs none of the steps applies to.
untouchedPair(max_per_day, max_block) ==
    /\ max_block <= max_per_day
    /\ ~(max_per_day = 6 /\ max_block < 6)
    /\ ~(max_per_day = 5 /\ max_block < 3)
    /\ ~(max_per_day = 4 /\ max_block < 2)

\* C26: the pre-reduction maps every pair (max_per_day, max_block) of 1..6 as
\* the rule states: max_block becomes max_per_day if it is larger; then
\* max_per_day 6 with max_block < 6 becomes 5, 5 with max_block < 3 becomes 4
\* and 4 with max_block < 2 becomes 3, one step after the other in one pass,
\* so that (6, 1) ends as (3, 1); every other pair is left unchanged.
C26_ParameterReduction ==
    parametersReduced =>
        \A t \in Teachers(scenario) :
            LET loaded == << inst.max_lectures_per_day, inst.max_lectures_as_block >>
                held == << max_lectures_per_day[t], max_lectures_as_block[t] >>
            IN  /\ held = reducedPair(loaded[1], loaded[2])
                /\ untouchedPair(loaded[1], loaded[2]) => held = loaded
                /\ loaded = << 6, 1 >> => held = << 3, 1 >>

\* The function has just reduced a teacher loaded with (6, 2) to (4, 2), in
\* two steps.
C26_Witness ==
    /\ pc = "lecturesAsBlock"
    /\ inst.max_lectures_per_day = 6 /\ inst.max_lectures_as_block = 2
    /\ \E t \in Teachers(scenario) : max_lectures_per_day[t] = 4 /\ max_lectures_as_block[t] = 2

\* The per-day function has posted its sums.
lecturesPerDayPosted == "addMaxLecturesPerDayTeacherConstraints" \in posted

\* C27: in the build the block-cap function, which reduces the parameters of
\* the teachers in place, has always run when the per-day function posts the
\* lecture sums, so for every teacher the sum is bounded by the reduced
\* max_lectures_per_day and never by the loaded value where the two differ.
C27_ReducedCapPosted ==
    lecturesPerDayPosted =>
        /\ parametersReduced
        /\ \A t \in Teachers(scenario) :
                LET reduced == reducedPair(inst.max_lectures_per_day, inst.max_lectures_as_block)[1]
                IN  /\ maxLecturesPosted[t] = reduced
                    /\ reduced # inst.max_lectures_per_day =>
                            maxLecturesPosted[t] # inst.max_lectures_per_day

\* The per-day function has just posted the bound 4 for a teacher loaded
\* with (5, 2).
C27_Witness ==
    /\ pc = "lecturesPerDay"
    /\ inst.max_lectures_per_day = 5 /\ inst.max_lectures_as_block = 2
    /\ \E t \in Teachers(scenario) : maxLecturesPosted[t] = 4

(***************************************************************************)
(* The helper variables of the timeslots.                                  *)
(***************************************************************************)
\* The functions on S that take at every x a value of values[x].
RECURSIVE choices(_, _)
choices(values, S) ==
    IF S = {} THEN {<< >>}
    ELSE LET x == CHOOSE y \in S : TRUE
         IN  {[y \in S |-> IF y = x THEN v ELSE f[y]] : f \in choices(values, S \ {x}), v \in values[x]}

\* The lectures of a teacher.
lecturesOf(teacher) ==
    {l \in teacherLessons(scenario, teacher) : scenario.courses[scenario.lessons[l].course].is_lecture}

\* The values the timeslotBoolVars of the lessons can take together in the
\* assignment of the solver.
allTimeslotBoolVars(values) == choices(values, Lessons(scenario))

\* C28: in every solution, for every lesson L and every timeslot s, the
\* boolean of L at s is 1 exactly if s is one of the timeslots of L (for a
\* lesson of several timeslots it is the sum of the lists of its timeVars),
\* so exactly L.timeslot_size of them are 1; and tOccupied of a teacher at s
\* is 1 exactly if a lecture of the teacher occupies s, so it is 0 at every
\* timeslot for a teacher without lectures.
C28_OccupancyBooleans ==
    callbackReturned =>
      LET values == [l \in Lessons(scenario) |-> TimeslotBoolVarValues(scenario, timeVars, l)]
      IN
        /\ \A l \in Lessons(scenario) :
                /\ values[l] # {}
                /\ \A B \in values[l] :
                        /\ \A t \in Timeslots :
                                /\ t \in B <=> tuplesOf(l, t) # {}
                                /\ t \in B <=> timeslotBoolVars(timeVars, l, t) = 1
                        /\ Cardinality(B) = timeslot_size(scenario, l)
        /\ \A bools \in allTimeslotBoolVars(values) :
                \A teacher \in Teachers(scenario) :
                    LET lectures == lecturesOf(teacher)
                        lectureSlots == {t \in Timeslots : \E l \in lectures : tuplesOf(l, t) # {}}
                    IN  /\ lectures = {} => lectureSlots = {}
                        /\ \A t \in Timeslots :
                                /\ TimeslotLectureBoolValues(scenario, teacher, t, bools)
                                        = {IF t \in lectureSlots THEN 1 ELSE 0}
                                /\ timeslotLectureBoolMap(scenario, timeVars, teacher, t)
                                        = IF t \in lectureSlots THEN 1 ELSE 0

\* A solution with a lecture of two timeslots whose teacher is occupied at
\* its second timeslot, and a teacher of other lessons without lectures.
C28_Witness ==
    /\ solutionBuilt
    /\ \E teacher \in Teachers(scenario), other \in Teachers(scenario) :
            /\ lecturesOf(other) = {}
            /\ teacherLessons(scenario, other) # {}
            /\ \E l \in lecturesOf(teacher) :
                    /\ Len(timeVars[l]) = 2
                    /\ \E B \in TimeslotBoolVarValues(scenario, timeVars, l) :
                            /\ timeVars[l][2] \in B
                            /\ 1 \in TimeslotLectureBoolValues(scenario, teacher, timeVars[l][2],
                                        [m \in lecturesOf(teacher) |->
                                            CHOOSE C \in TimeslotBoolVarValues(scenario, timeVars, m) : TRUE])

(***************************************************************************)
(* The model with and without the soft constraints.                        *)
(***************************************************************************)
\* The values of the counters of the soft constraints lie in the domains of
\* their variables: nthHourCount in 0 .. len(orm.getLessons()) and
\* lessonsOnFreeDay in 0 .. max_lessons_per_day.
counterDomains(sc, tv) ==
    /\ \A timeslotNumber \in {6, 5, 1} :
            addCountLessonsAtNthHour(sc, tv, timeslotNumber) <= Len(sc.lessons)
    /\ addFreeDaySemesterGroupVariables(sc, tv)

\* C29: adding the counters of the soft constraints and the objective never
\* removes a timetable: every assignment that satisfies the hard constraints
\* has values for the counters in the model built with OPTIMIZE, also when a
\* cohort with a free_day has more lessons on that day than its
\* max_lessons_per_day, as with parallel part-cohort lessons.
C29_SoftConstraintsKeepTimetables ==
    solutionBuilt => counterDomains(scenario, timeVars)

(***************************************************************************)
(* The reduction of the lecture parameters and the day patterns.           *)
(***************************************************************************)
\* The day patterns, as the sets of the occupied hours of a day, with at
\* most max_per_day occupied hours and no run of more than max_block hours.
allowedPatterns(max_per_day, max_block) ==
    {hours \in SUBSET (1 .. TIMESLOTS_PER_DAY) :
        /\ Cardinality(hours) <= max_per_day
        /\ ~\E first \in 1 .. (TIMESLOTS_PER_DAY - max_block) :
                first .. (first + max_block) \subseteq hours}

\* The block-cap function has just reduced the parameters of the teachers.
justReduced == pc = "lecturesAsBlock"

\* C30: the reduction of the lecture parameters does not change what is
\* allowed and is idempotent: for every loaded pair of 1 .. 6 the day
\* patterns of 6 hours with at most max_per_day occupied hours and no run
\* longer than max_block are the same for the loaded and for the reduced
\* pair, and reducing the reduced pair leaves it unchanged.
C30_ReductionKeepsPatterns ==
    justReduced =>
        \A t \in Teachers(scenario) :
            LET again == reduceLectureParameters(max_lectures_per_day[t], max_lectures_as_block[t])
            IN  /\ allowedPatterns(max_lectures_per_day[t], max_lectures_as_block[t])
                        = allowedPatterns(inst.max_lectures_per_day, inst.max_lectures_as_block)
                /\ again.max_lectures_per_day = max_lectures_per_day[t]
                /\ again.max_lectures_as_block = max_lectures_as_block[t]

\* A teacher loaded with (6, 1) has just been reduced to (3, 1); the first,
\* third and fifth hour are an allowed pattern of both pairs, and four
\* hours are allowed by neither.
C30_Witness ==
    /\ justReduced
    /\ inst.max_lectures_per_day = 6 /\ inst.max_lectures_as_block = 1
    /\ \E t \in Teachers(scenario) :
            /\ max_lectures_per_day[t] = 3 /\ max_lectures_as_block[t] = 1
            /\ {1, 3, 5} \in allowedPatterns(max_lectures_per_day[t], max_lectures_as_block[t])
            /\ {1, 3, 5} \in allowedPatterns(inst.max_lectures_per_day, inst.max_lectures_as_block)
            /\ \A hours \in allowedPatterns(inst.max_lectures_per_day, inst.max_lectures_as_block) :
                    Cardinality(hours) <= 3

====
